---- MODULE Spec2Model ----
(***************************************************************************)
(* A model of ArmoniK.LinPyK: the bipartite task graph (linpyk/graph), the *)
(* operator builders (linpyk/graph/ops), the session driver                *)
(* (linpyk/backend/base.py), the reference executor                        *)
(* (linpyk/backend/dummy.py), the worker-side dispatcher                   *)
(* (linpyk/common/processing.py) and the fetch path of the distributed     *)
(* backend (linpyk/backend/gp.py).                                         *)
(*                                                                         *)
(* Python objects are numbered by creation order.  None is modelled by     *)
(* PyNone for values and by NoId (0) for an id; uuid4 strings are modelled *)
(* by fresh positive integers.  A raised exception is recorded in err as   *)
(* the name of its class, and ends the operation that raised it.           *)
(***************************************************************************)
EXTENDS Integers, Sequences, FiniteSets, TLC

VARIABLES
    nodes,      \* the graph's nodes, in insertion order: node objects
    edges,      \* the graph's edges, in insertion order, with attributes
    backend,    \* the class of the backend the session drives
    session_id, \* ArmoniKBackend._session_id, NoId for None
    results,    \* DummyBackend._results: id -> PyNone | serialized result
    nextId,     \* the next id uuid4 hands out
    pc,         \* position inside the running operation, "idle" between calls
    op,         \* the operation running or, when idle, the last one called
    err,        \* class of the exception that operation raised, "" if none
    tasks,      \* the task list handed to submit_tasks
    ti,         \* index in tasks of the task being executed
    deps,       \* submit_tasks: task_data_dependencies of the current task
    outs,       \* WorkerProcessingInstance._outputs of the current task
    seeds,      \* the dict _pre_compile returned, to be uploaded
    calls,      \* backend methods called by the current session operation
    written,    \* ids written by the current submit_tasks call, in order
    runs,       \* how many times run() was called
    submits,    \* how many times submit_tasks() was called directly
    gets,       \* how many times get_data_node() was called
    reply,      \* what the last wait_for_availability returned
    got,        \* the node the last get_data_node() was called on
    stage,      \* where in submit_tasks its last exception was raised
    sessions,   \* how many times new_session() was entered
    inSession,  \* whether the program is inside a new_session() block
    fabric,     \* the requests the ArmoniK client sent to the fabric, in order
    arrays,     \* the DTArrays the program has made, in order
    arg,        \* the arguments of the last algorithm generator call
    graphs,     \* the ArmoniKGraph objects: the nodes and the edges of each
    current_graph, \* graph.current_graph: index in graphs, NoGraph for None
    scopes,     \* the graphs whose with blocks are open, innermost last
    sent,       \* what the worker's processor sent with send_result
    output,     \* the Output the worker's processor returned
    submitted   \* ArmoniKBackend._submitted_tasks

graphVars == << nodes, edges >>
backendVars == << backend, session_id, results, nextId >>
frameVars == << tasks, ti, deps, outs, seeds, written >>
sessionVars == << sessions, inSession, fabric >>
programVars == << arrays, arg >>
scopeVars == << graphs, current_graph, scopes >>
workerVars == << sent, output, submitted >>
vars == << nodes, edges, backend, session_id, results, nextId, pc, op, err,
           tasks, ti, deps, outs, seeds, calls, written, runs, submits, gets,
           reply, got, stage, sessions, inSession, fabric, arrays, arg, graphs,
           current_graph, scopes, sent, output, submitted >>

(***************************************************************************)
(* Bounds of the exploration.                                              *)
(***************************************************************************)
MaxNodes == 5
MaxGets == 1
MaxRawEdges == 3
MaxIds == 2
MaxTasks == 2
MaxInputTiles == 9
MaxArrays == 2
MaxDim == 4
MaxArrayTiles == 16
MaxRequests == 3
MaxSessions == 2
MaxRuns == 2
MaxGraphs == 2
MaxScopes == 2
MaxScopeNodes == 3
MaxBuilderTiles == 2
MaxBuilderCalls == 2
MaxGenDim == 2

\* An id the backend never handed out.
ForeignId == -1

(***************************************************************************)
(* OpCode(IntEnum), numbered by auto().                                    *)
(***************************************************************************)
DRGM == 1
POTRF == 2
TRSM == 3
SYRK == 4
GEMM == 5
ONES == 6

NoId == 0

(***************************************************************************)
(* Values.  Every value is a record of one shape so that any two compare.  *)
(*   PyNone            Python's None                                       *)
(*   Arr(k)            a numpy array supplied by the caller                *)
(*   KernelArr(...)    the array a numeric kernel returns: a deterministic *)
(*                     function of opcode, parameters and named inputs     *)
(*   Bytes(v)          pickle.dumps(v)                                     *)
(***************************************************************************)
PyNone == [tag |-> "None", op |-> 0, n |-> 0, args |-> <<>>, params |-> <<>>]
Arr(k) == [tag |-> "ndarray", op |-> 0, n |-> k, args |-> <<>>, params |-> <<>>]
KernelArr(opcode, inputs, options) ==
    [tag |-> "ndarray", op |-> opcode, n |-> 0, args |-> inputs, params |-> options]
Bytes(v) == [tag |-> "bytes", op |-> 0, n |-> 0, args |-> <<v>>, params |-> <<>>]

\* An array lapack.dpotrf rejects (info != 0): not positive definite.
NotSPD == Arr(0)
\* What a tile handed to DTArray.__setitem__ holds: an array, or nothing.
SeedValues == {PyNone, Arr(1)}

\* Result.serialize: pickle.dumps(self.array).
Result_serialize(array) == Bytes(array)

\* Result.deserialize: pickle.loads(payload); a TypeError when payload is not
\* bytes-like (None).
Result_deserialize_raises(payload) == payload.tag /= "bytes"
Result_deserialize(payload) == payload.args[1]

(***************************************************************************)
(* Nodes.  kind is the Python class of the object.                         *)
(***************************************************************************)
DataNode(values) ==
    [kind |-> "DataNode", opcode |-> 0, params |-> <<>>, result_id |-> NoId,
     values |-> values]
TileNode(values) ==
    [kind |-> "TileNode", opcode |-> 0, params |-> <<>>, result_id |-> NoId,
     values |-> values]
ControlNode(opcode, params) ==
    [kind |-> "ControlNode", opcode |-> opcode, params |-> params,
     result_id |-> NoId, values |-> PyNone]

\* isinstance(node, DataNode): TileNode is a subclass of DataNode.
IsDataNode(nd) == nd.kind \in {"DataNode", "TileNode"}
\* isinstance(node, ControlNode)
IsControlNode(nd) == nd.kind = "ControlNode"

NodeIds == 1..Len(nodes)
DataIds == {i \in NodeIds : IsDataNode(nodes[i])}
ControlIds == {i \in NodeIds : IsControlNode(nodes[i])}

(***************************************************************************)
(* nx.DiGraph: at most one edge per (u, v); adding it again updates the    *)
(* attribute dict of the existing edge.  "" is an absent attribute.        *)
(***************************************************************************)
EdgeIndex(E, u, v) == {i \in 1..Len(E) : E[i].u = u /\ E[i].v = v}

add_edge(E, u, v, input_name, output_name) ==
    IF EdgeIndex(E, u, v) = {}
    THEN Append(E, [u |-> u, v |-> v, input_name |-> input_name,
                    output_name |-> output_name])
    ELSE LET i == CHOOSE j \in EdgeIndex(E, u, v) : TRUE
         IN [E EXCEPT ![i].input_name =
                        IF input_name /= "" THEN input_name ELSE @,
                      ![i].output_name =
                        IF output_name /= "" THEN output_name ELSE @]

\* DiGraph.predecessors / successors, in insertion order of the edges.
InEdges(E, v) == LET keep(e) == e.v = v IN SelectSeq(E, keep)
OutEdges(E, u) == LET keep(e) == e.u = u IN SelectSeq(E, keep)
in_degree(E, v) == Len(InEdges(E, v))
out_degree(E, u) == Len(OutEdges(E, u))

(***************************************************************************)
(* Operator builders (linpyk/graph/ops).  G is the working graph           *)
(* [nodes, edges]; each builder returns the graph it leaves, in which the  *)
(* new control node and the new output node are the last two nodes.        *)
(* Scale factors (floats) are modelled by integers.                        *)
(***************************************************************************)
Graph(N, E) == [nodes |-> N, edges |-> E]

\* lapack.py: tile_potrf(a, lower=0, clean=0, overwrite_a=1)
tile_potrf(G, a, lower, clean, overwrite_a) ==
    LET control == Len(G.nodes) + 1
        l == Len(G.nodes) + 2
        N == G.nodes \o
             << ControlNode(POTRF, [lower |-> lower, clean |-> clean,
                                    overwrite_a |-> overwrite_a]),
                TileNode(PyNone) >>
        E1 == add_edge(G.edges, a, control, "a", "")
        E2 == add_edge(E1, control, l, "", "l")
    IN Graph(N, E2)

\* A triangular solve that writes its result into the tile b itself instead
\* of a new tile.
tile_trsm_in_place(G, alpha, a, b, side, lower, trans_a, diag) ==
    LET control == Len(G.nodes) + 1
        N == G.nodes \o
             << ControlNode(TRSM, [alpha |-> alpha, side |-> side,
                                   lower |-> lower, trans_a |-> trans_a,
                                   diag |-> diag, overwrite_b |-> 1]),
                TileNode(PyNone) >>
        E1 == add_edge(G.edges, a, control, "a", "")
        E2 == add_edge(E1, b, control, "b", "")
        E3 == add_edge(E2, control, b, "", "x")
    IN Graph(N, E3)

\* blas.py: tile_trsm(alpha, a, b, side=0, lower=0, trans_a=0, diag=0,
\* overwrite_b=0)
tile_trsm(G, alpha, a, b, side, lower, trans_a, diag) ==
    LET control == Len(G.nodes) + 1
        x == Len(G.nodes) + 2
        N == G.nodes \o
             << ControlNode(TRSM, [alpha |-> alpha, side |-> side,
                                   lower |-> lower, trans_a |-> trans_a,
                                   diag |-> diag, overwrite_b |-> 0]),
                TileNode(PyNone) >>
        E1 == add_edge(G.edges, a, control, "a", "")
        E2 == add_edge(E1, b, control, "b", "")
        E3 == add_edge(E2, control, x, "", "x")
    IN Graph(N, E3)

\* blas.py: tile_syrk(alpha, a, c, beta=0.0, trans=0, lower=0, overwrite_c=0)
tile_syrk(G, alpha, a, c, beta, trans, lower) ==
    LET control == Len(G.nodes) + 1
        x == Len(G.nodes) + 2
        N == G.nodes \o
             << ControlNode(SYRK, [alpha |-> alpha, beta |-> beta,
                                   trans |-> trans, lower |-> lower,
                                   overwrite_c |-> 0]),
                TileNode(PyNone) >>
        E1 == add_edge(G.edges, a, control, "a", "")
        E2 == add_edge(E1, c, control, "c", "")
        E3 == add_edge(E2, control, x, "", "c")
    IN Graph(N, E3)

\* blas.py: tile_gemm(alpha, a, b, beta=0.0, c=None, trans_a=0, trans_b=0,
\* overwrite_c=0); c = 0 is c=None.
tile_gemm(G, alpha, a, b, beta, c, trans_a, trans_b) ==
    LET control == Len(G.nodes) + 1
        x == Len(G.nodes) + 2
        N == G.nodes \o
             << ControlNode(GEMM, [alpha |-> alpha, beta |-> beta,
                                   trans_a |-> trans_a, trans_b |-> trans_b,
                                   overwrite_c |-> 0]),
                TileNode(PyNone) >>
        E1 == add_edge(G.edges, a, control, "a", "")
        E2 == add_edge(E1, b, control, "b", "")
        E3 == add_edge(E2, control, x, "", "c")
    IN Graph(N, IF c /= 0 THEN add_edge(E3, c, control, "c", "") ELSE E3)

\* gen.py: remote_dtarray_generator(n_dim, tile_size, generate): the n_dim^2
\* tiles are registered first (DTArray.__setitem__), then one DRGM control
\* node per tile is added with its output edge.
RECURSIVE GenEdges(_, _, _, _)
GenEdges(E, first, count, k) ==
    IF k > count THEN E
    ELSE GenEdges(add_edge(E, first + count + k, first + k, "", "a"),
                  first, count, k + 1)

remote_dtarray_generator(G, n_dim, tile_size, generate) ==
    LET count == n_dim * n_dim
        first == Len(G.nodes)
        tiles == [k \in 1..count |-> TileNode(PyNone)]
        controls == [k \in 1..count |->
                        ControlNode(DRGM, [gen |-> generate, size |-> tile_size,
                                           idx |-> [type |-> "tuple",
                                                    items |-> << (k - 1) \div n_dim,
                                                                 (k - 1) % n_dim >>]])]
    IN Graph(G.nodes \o tiles \o controls,
             GenEdges(G.edges, first, count, 1))

\* array.py: DTArray.__setitem__(index, tile): registers the tile in the
\* working graph (add_node).
DTArray_setitem(G, tile) == Graph(Append(G.nodes, tile), G.edges)

(***************************************************************************)
(* Tiled arrays (graph/array.py) and the algorithm generators              *)
(* (algorithms/dense.py).  A DTArray is the grid of its tiles: a function  *)
(* from <<i, j>> to the tile's node, 0 for None.  A generator works on     *)
(* st = [G, l, a] or [G, x, b]: the working graph, the array it returns    *)
(* and the list of intermediate arrays, a[k] of the code being st.a[k+1].  *)
(* Assigning a builder's output tile into an array adds no node: the       *)
(* builder's add_edge has put it in the graph already.                     *)
(***************************************************************************)
Empty(r, c) == [idx \in (0..(r - 1)) \X (0..(c - 1)) |-> 0]

Last(G) == Len(G.nodes)

\* DTArray.from_numpy: the tiles are created row by row.
RECURSIVE from_numpy(_, _, _, _, _)
from_numpy(st, r, c, k, vals) ==
    IF k >= r * c THEN st
    ELSE LET idx == << k \div c, k % c >>
             G == DTArray_setitem(st.G, TileNode(vals[idx]))
         IN from_numpy([G |-> G, dta |-> [st.dta EXCEPT ![idx] = Last(G)]],
                       r, c, k + 1, vals)

\* A step that leaves the sub-diagonal tiles of column k unsolved.
cholesky_without_trsm(st, p, k, i) == st

\* cholesky, lines 20-24: for i in range(k + 1, p)
RECURSIVE cholesky_trsm(_, _, _, _)
cholesky_trsm(st, p, k, i) ==
    IF i >= p THEN st
    ELSE LET G == tile_trsm(st.G, 1, st.l[<< k, k >>],
                            st.a[k + 1][<< i - k, 0 >>], 1, 1, 1, 0)
         IN cholesky_trsm([st EXCEPT !.G = G, !.l[<< i, k >>] = Last(G)],
                          p, k, i + 1)

\* An update that takes the trailing tile from the mirrored cell (j, i).
RECURSIVE cholesky_update_mirrored(_, _, _, _, _)
cholesky_update_mirrored(st, p, k, j, i) ==
    IF j >= p THEN st
    ELSE IF i >= p THEN cholesky_update_mirrored(st, p, k, j + 1, j + 1)
    ELSE LET c == st.a[k + 1][<< j - k, i - k >>]
             G == IF i = j
                  THEN tile_syrk(st.G, -1, st.l[<< i, k >>], c, 1, 0, 1)
                  ELSE tile_gemm(st.G, -1, st.l[<< i, k >>], st.l[<< j, k >>],
                                 1, c, 0, 1)
         IN cholesky_update_mirrored(
                [st EXCEPT !.G = G,
                           !.a[k + 2][<< i - k - 1, j - k - 1 >>] = Last(G)],
                p, k, j, i + 1)

\* cholesky, lines 25-40: for j in range(k + 1, p): for i in range(j, p)
RECURSIVE cholesky_update(_, _, _, _, _)
cholesky_update(st, p, k, j, i) ==
    IF j >= p THEN st
    ELSE IF i >= p THEN cholesky_update(st, p, k, j + 1, j + 1)
    ELSE LET c == st.a[k + 1][<< i - k, j - k >>]
             G == IF i = j
                  THEN tile_syrk(st.G, -1, st.l[<< i, k >>], c, 1, 0, 1)
                  ELSE tile_gemm(st.G, -1, st.l[<< i, k >>], st.l[<< j, k >>],
                                 1, c, 0, 1)
         IN cholesky_update(
                [st EXCEPT !.G = G,
                           !.a[k + 2][<< i - k - 1, j - k - 1 >>] = Last(G)],
                p, k, j, i + 1)

\* cholesky, lines 17-40: for k in range(p)
RECURSIVE cholesky_loop(_, _, _)
cholesky_loop(st, p, k) ==
    IF k >= p THEN st
    ELSE LET G == tile_potrf(st.G, st.a[k + 1][<< 0, 0 >>], 1, 0, 0)
             s1 == [st EXCEPT !.G = G, !.l[<< k, k >>] = Last(G)]
             s2 == cholesky_trsm(s1, p, k, k + 1)
         IN cholesky_loop(cholesky_update(s2, p, k, k + 1, k + 1), p, k + 1)

\* cholesky(a) for a p x p array: [G, dta] with dta the array l returned.
cholesky(G, a, p) ==
    LET st == cholesky_loop(
                [G |-> G, l |-> Empty(p, p),
                 a |-> [k \in 1..p |-> IF k = 1 THEN a
                                       ELSE Empty(p - k + 1, p - k + 1)]],
                p, 0)
    IN [G |-> st.G, dta |-> st.l]

\* A row that propagates no update into the rows below it.
forward_without_update(st, a, p, j, i, trans) == st

\* forward_substitution, lines 52-54: for i in range(0, p - j - 1)
RECURSIVE forward_update(_, _, _, _, _, _)
forward_update(st, a, p, j, i, trans) ==
    IF i >= p - j - 1 THEN st
    ELSE LET G == tile_gemm(st.G, -1, a[<< j + i + 1, j >>], st.x[<< j, 0 >>],
                            1, st.b[j + 1][<< i + 1, 0 >>], trans, 0)
         IN forward_update(
                [st EXCEPT !.G = G, !.b[j + 2][<< i, 0 >>] = Last(G)],
                a, p, j, i + 1, trans)

\* forward_substitution, lines 50-54: for j in range(p)
RECURSIVE forward_loop(_, _, _, _, _, _)
forward_loop(st, a, p, j, trans, lower) ==
    IF j >= p THEN st
    ELSE LET G == tile_trsm(st.G, 1, a[<< j, j >>], st.b[j + 1][<< 0, 0 >>],
                            0, lower, trans, 0)
             s1 == [st EXCEPT !.G = G, !.x[<< j, 0 >>] = Last(G)]
         IN forward_loop(forward_update(s1, a, p, j, 0, trans), a, p, j + 1,
                         trans, lower)

\* forward_substitution(a, b, trans, lower); unit_diagonal at its default.
forward_substitution(G, a, b, p, trans, lower) ==
    LET st == forward_loop(
                [G |-> G, x |-> Empty(p, 1),
                 b |-> [k \in 1..p |-> IF k = 1 THEN b
                                       ELSE Empty(p - k + 1, 1)]],
                a, p, 0, trans, lower)
    IN [G |-> st.G, dta |-> st.x]

\* A swap that ignores trans: the coefficient tile is always a[i, j].
swap_untransposed(trans, i, j) == << i, j >>

\* backward_substitution, lines 64-67: the local function swap.
swap(trans, i, j) == IF trans /= 0 THEN << j, i >> ELSE << i, j >>

\* backward_substitution, lines 72-75: for i in reversed(range(j))
RECURSIVE backward_update(_, _, _, _, _, _)
backward_update(st, a, p, j, i, trans) ==
    IF i < 0 THEN st
    ELSE LET G == tile_gemm(st.G, -1, a[swap(trans, i, j)], st.x[<< j, 0 >>],
                            1, st.b[p - j][<< i, 0 >>], trans, 0)
         IN backward_update(
                [st EXCEPT !.G = G, !.b[p - j + 1][<< i, 0 >>] = Last(G)],
                a, p, j, i - 1, trans)

\* backward_substitution, lines 69-75: for j in reversed(range(p))
RECURSIVE backward_loop(_, _, _, _, _, _)
backward_loop(st, a, p, j, trans, lower) ==
    IF j < 0 THEN st
    ELSE LET G == tile_trsm(st.G, 1, a[<< j, j >>], st.b[p - j][<< j, 0 >>],
                            0, lower, trans, 0)
             s1 == [st EXCEPT !.G = G, !.x[<< j, 0 >>] = Last(G)]
         IN backward_loop(backward_update(s1, a, p, j, j - 1, trans), a, p,
                          j - 1, trans, lower)

\* backward_substitution(a, b, trans, lower); unit_diagonal at its default.
backward_substitution(G, a, b, p, trans, lower) ==
    LET st == backward_loop(
                [G |-> G, x |-> Empty(p, 1),
                 b |-> [k \in 1..p |-> IF k = 1 THEN b
                                       ELSE Empty(p - k + 1, 1)]],
                a, p, p - 1, trans, lower)
    IN [G |-> st.G, dta |-> st.x]

\* solve(a, b, assume_a='spd')
solve(G, a, b, p) ==
    LET l == cholesky(G, a, p)
        y == forward_substitution(l.G, l.dta, b, p, 0, 1)
    IN backward_substitution(y.G, l.dta, y.dta, p, 1, 1)

(***************************************************************************)
(* The state after construction: an empty graph, a backend with an empty   *)
(* table, no operation running.                                            *)
(***************************************************************************)
\* graph.current_graph is None.
NoGraph == 0

\* The processor has returned nothing yet.
NoOutput == ""

\* No generator was called yet.
NoArg == [a |-> 0, b |-> 0, assume_a |-> ""]

NoCalls ==
    [request_output_id |-> 0, submit_results |-> 0, submit_tasks |-> 0,
     wait_for_availability |-> 0, get_result |-> 0]

Init ==
    /\ nodes = <<>>
    /\ edges = <<>>
    /\ backend = "DummyBackend"
    /\ session_id = NoId
    /\ results = <<>>
    /\ nextId = 1
    /\ pc = "idle"
    /\ op = ""
    /\ err = ""
    /\ tasks = <<>>
    /\ ti = 0
    /\ deps = <<>>
    /\ outs = <<>>
    /\ seeds = <<>>
    /\ calls = NoCalls
    /\ written = <<>>
    /\ runs = 0
    /\ submits = 0
    /\ gets = 0
    /\ reply = ""
    /\ got = 0
    /\ stage = ""
    /\ sessions = 0
    /\ inSession = FALSE
    /\ fabric = <<>>
    /\ arrays = <<>>
    /\ arg = NoArg
    /\ graphs = <<>>
    /\ current_graph = NoGraph
    /\ scopes = <<>>
    /\ sent = <<>>
    /\ output = NoOutput
    /\ submitted = <<>>

G0 == Graph(nodes, edges)

\* Graph construction happens inside the `with g:` block, before the graph
\* is handed to a session.
Building == pc = "idle" /\ runs = 0 /\ submits = 0 /\ gets = 0

SetGraph(G) ==
    /\ nodes' = G.nodes
    /\ edges' = G.edges
    /\ UNCHANGED << backendVars, frameVars, pc, op, err, calls, runs, submits,
                    gets, reply, got,
                    stage, sessionVars, programVars, scopeVars, workerVars >>

\* A tile holding caller data (DTArray.from_numpy, set_from_array) or no
\* data, assigned into an array.  The input arrays are filled before the
\* first operator builder is called.
NewTile ==
    /\ Building
    /\ ControlIds = {}
    /\ Len(nodes) + 1 <= MaxNodes
    /\ \E v \in SeedValues : SetGraph(DTArray_setitem(G0, TileNode(v)))

Potrf ==
    /\ Building
    /\ Len(nodes) + 2 <= MaxNodes
    /\ \E a \in DataIds : SetGraph(tile_potrf(G0, a, 1, 0, 0))

Trsm ==
    /\ Building
    /\ Len(nodes) + 2 <= MaxNodes
    /\ \E a \in DataIds, b \in DataIds :
          SetGraph(tile_trsm(G0, 1, a, b, 1, 1, 1, 0))

Syrk ==
    /\ Building
    /\ Len(nodes) + 2 <= MaxNodes
    /\ \E a \in DataIds, c \in DataIds :
          SetGraph(tile_syrk(G0, -1, a, c, 1, 0, 1))

Gemm ==
    /\ Building
    /\ Len(nodes) + 2 <= MaxNodes
    /\ \E a \in DataIds, b \in DataIds, c \in DataIds \cup {0} :
          SetGraph(tile_gemm(G0, -1, a, b, 1, c, 0, 1))

RemoteGen ==
    /\ Building
    /\ \E n_dim \in 1..MaxNodes :
          /\ Len(nodes) + 2 * n_dim * n_dim <= MaxNodes
          /\ SetGraph(remote_dtarray_generator(G0, n_dim, 2, "eye"))

Build == NewTile \/ Potrf \/ Trsm \/ Syrk \/ Gemm \/ RemoteGen

BuildSpec == Init /\ [][Build]_vars

(***************************************************************************)
(* Python dicts: insertion-ordered, one entry per key; setting an existing *)
(* key replaces its value in place.                                        *)
(***************************************************************************)
DictHas(d, k) == \E i \in 1..Len(d) : d[i].k = k
DictGet(d, k) == d[CHOOSE i \in 1..Len(d) : d[i].k = k].v
DictSet(d, k, v) ==
    IF DictHas(d, k)
    THEN [i \in 1..Len(d) |-> IF d[i].k = k THEN [k |-> k, v |-> v] ELSE d[i]]
    ELSE Append(d, [k |-> k, v |-> v])
DictValues(d) == [i \in 1..Len(d) |-> d[i].v]
DictKeys(d) == [i \in 1..Len(d) |-> d[i].k]

(***************************************************************************)
(* Payload (common/payload.py).  json.dumps keeps ints and strings and     *)
(* writes a tuple as a list; json.loads reads a list back.                 *)
(***************************************************************************)
PyTuple(items) == [type |-> "tuple", items |-> items]
PyList(items) == [type |-> "list", items |-> items]

Payload(opcode, expected_output_names, dependency_names, params) ==
    [opcode |-> opcode, expected_output_names |-> expected_output_names,
     dependency_names |-> dependency_names, params |-> params]

json_value(k, v) == IF k = "idx" THEN PyList(v.items) ELSE v

Payload_serialize(p) ==
    [json |-> [opcode |-> p.opcode,
               params |-> [k \in DOMAIN p.params |-> json_value(k, p.params[k])],
               expected_output_names |-> p.expected_output_names,
               dependency_names |-> p.dependency_names]]

Payload_deserialize(b) ==
    Payload(b.json.opcode, b.json.expected_output_names,
            b.json.dependency_names, b.json.params)

TaskDefinition(payload, expected_output_ids, data_dependencies) ==
    [payload |-> payload, expected_output_ids |-> expected_output_ids,
     data_dependencies |-> data_dependencies]

(***************************************************************************)
(* nx.topological_sort.  The generator yields the nodes whose predecessors *)
(* were all yielded; it raises NetworkXUnfeasible once no such node is     *)
(* left while nodes remain (a cycle).  Which ready control node comes      *)
(* first is left open, so that every order of the control nodes that some  *)
(* topological order induces is an outcome.  Ready data nodes are yielded  *)
(* at once, lowest first: _compile emits nothing for a data node, so their *)
(* place changes neither the task list nor the exception.                  *)
(***************************************************************************)
\* A sort that yields a node without waiting for its predecessors.
ReadyUnordered(G, done) ==
    {v \in 1..Len(G.nodes) : \A i \in 1..Len(done) : done[i] /= v}

Ready(G, done) ==
    {v \in 1..Len(G.nodes) :
        /\ \A i \in 1..Len(done) : done[i] /= v
        /\ \A j \in 1..Len(G.edges) :
              G.edges[j].v = v => \E i \in 1..Len(done) : done[i] = G.edges[j].u}

\* ready and data are bound as the one element of a set, which makes each
\* of them a value computed once however often it is read.
RECURSIVE TopologicalRuns(_, _)
TopologicalRuns(G, done) ==
    UNION {
        IF ready = {} THEN {done}
        ELSE UNION {
                IF data /= {}
                THEN TopologicalRuns(G, Append(done,
                        CHOOSE v \in data : \A w \in data : v <= w))
                ELSE UNION {TopologicalRuns(G, Append(done, v)) : v \in ready}
                : data \in {{v \in ready : IsDataNode(G.nodes[v])}}}
        : ready \in {Ready(G, done)}}

topological_sort(G) == TopologicalRuns(G, <<>>)

\* nx.is_directed_acyclic_graph
is_directed_acyclic_graph(G) ==
    \A ord \in topological_sort(G) : Len(ord) = Len(G.nodes)

(***************************************************************************)
(* SessionContext._compile (backend/base.py).  The two dict comprehensions *)
(* of one control node: the key (the edge attribute) is evaluated before   *)
(* the value (the neighbour's result_id).                                  *)
(***************************************************************************)
RECURSIVE NamesDict(_, _, _, _, _)
NamesDict(N, es, i, attr, d) ==
    IF i > Len(es) THEN [d |-> d, err |-> ""]
    ELSE LET name == IF attr = "output_name" THEN es[i].output_name
                     ELSE es[i].input_name
             other == IF attr = "output_name" THEN es[i].v ELSE es[i].u
         IN IF name = "" THEN [d |-> d, err |-> "KeyError"]
            ELSE IF ~IsDataNode(N[other])
                 THEN [d |-> d, err |-> "AttributeError"]
            ELSE NamesDict(N, es, i + 1, attr,
                           DictSet(d, name, N[other].result_id))

\* A task whose data_dependencies list the ids in the reverse order of the
\* payload's dependency map, the last id left out.
CompileNodeShort(G, node) ==
    CHOOSE r \in
        {IF outd.err /= "" THEN [task |-> <<>>, err |-> outd.err]
         ELSE IF ind.err /= "" THEN [task |-> <<>>, err |-> ind.err]
         ELSE [task |-> << TaskDefinition(
                              Payload_serialize(
                                  Payload(G.nodes[node].opcode, outd.d, ind.d,
                                          G.nodes[node].params)),
                              DictValues(outd.d),
                              [i \in 1..(Len(ind.d) - 1) |->
                                  ind.d[Len(ind.d) - i].v]) >>,
               err |-> ""]
         : outd \in {NamesDict(G.nodes, OutEdges(G.edges, node), 1,
                               "output_name", <<>>)},
           ind \in {NamesDict(G.nodes, InEdges(G.edges, node), 1,
                              "input_name", <<>>)}} : TRUE

\* outd, ind and c are bound as the one element of a set, which makes each
\* of them a value computed once however often it is read.
CompileNode(G, node) ==
    CHOOSE r \in
        {IF outd.err /= "" THEN [task |-> <<>>, err |-> outd.err]
         ELSE IF ind.err /= "" THEN [task |-> <<>>, err |-> ind.err]
         ELSE [task |-> << TaskDefinition(
                              Payload_serialize(
                                  Payload(G.nodes[node].opcode, outd.d, ind.d,
                                          G.nodes[node].params)),
                              DictValues(outd.d), DictValues(ind.d)) >>,
               err |-> ""]
         : outd \in {NamesDict(G.nodes, OutEdges(G.edges, node), 1,
                               "output_name", <<>>)},
           ind \in {NamesDict(G.nodes, InEdges(G.edges, node), 1,
                              "input_name", <<>>)}} : TRUE

RECURSIVE CompileOrder(_, _, _, _)
CompileOrder(G, ord, i, acc) ==
    IF i > Len(ord)
    THEN IF Len(ord) < Len(G.nodes)
         THEN [tasks |-> <<>>, err |-> "NetworkXUnfeasible"]
         ELSE [tasks |-> acc, err |-> ""]
    ELSE IF IsControlNode(G.nodes[ord[i]])
         THEN CHOOSE r \in
                  {IF c.err /= "" THEN [tasks |-> <<>>, err |-> c.err]
                   ELSE CompileOrder(G, ord, i + 1, acc \o c.task)
                   : c \in {CompileNode(G, ord[i])}} : TRUE
         ELSE CompileOrder(G, ord, i + 1, acc)

\* Every outcome of _compile(exec_graph): a task list, or the exception.
_compile(G) == {CompileOrder(G, ord, 1, <<>>) : ord \in topological_sort(G)}

(***************************************************************************)
(* SessionContext._pre_compile with DummyBackend.request_output_id: every  *)
(* data node gets a fresh id, entered in the table as None; the seeds are  *)
(* the data nodes with in-degree 0 and out-degree > 0.                     *)
(***************************************************************************)
\* An allocation that hands the same id to every data node.
AssignSameId(N, i, id) ==
    [k \in 1..Len(N) |-> IF IsDataNode(N[k]) THEN [N[k] EXCEPT !.result_id = id]
                          ELSE N[k]]

RECURSIVE AssignIds(_, _, _)
AssignIds(N, i, id) ==
    IF i > Len(N) THEN N
    ELSE IF IsDataNode(N[i])
         THEN AssignIds([N EXCEPT ![i].result_id = id], i + 1, id + 1)
         ELSE AssignIds(N, i + 1, id)

\* A selection of the data nodes nothing reads instead of the seeds.
IsSeedUnused(G, i) ==
    /\ IsDataNode(G.nodes[i])
    /\ in_degree(G.edges, i) = 0
    /\ out_degree(G.edges, i) = 0

\* A test that takes every consumed data node, produced or not.
IsSeedProduced(G, i) ==
    /\ IsDataNode(G.nodes[i])
    /\ out_degree(G.edges, i) > 0

IsSeed(G, i) ==
    /\ IsDataNode(G.nodes[i])
    /\ in_degree(G.edges, i) = 0
    /\ out_degree(G.edges, i) > 0

\* A collection that takes every data node, used or not, produced or not.
RECURSIVE SeedResultsOfAll(_, _, _)
SeedResultsOfAll(G, i, d) ==
    IF i > Len(G.nodes) THEN d
    ELSE SeedResultsOfAll(G, i + 1,
                          IF IsDataNode(G.nodes[i])
                          THEN DictSet(d, G.nodes[i].result_id, G.nodes[i].values)
                          ELSE d)

RECURSIVE SeedResults(_, _, _)
SeedResults(G, i, d) ==
    IF i > Len(G.nodes) THEN d
    ELSE SeedResults(G, i + 1,
                     IF IsSeed(G, i)
                     THEN DictSet(d, G.nodes[i].result_id, G.nodes[i].values)
                     ELSE d)

NumData(N) == Cardinality({i \in 1..Len(N) : IsDataNode(N[i])})

(***************************************************************************)
(* DummyBackend (backend/dummy.py).  R is the table _results.              *)
(***************************************************************************)
IsNone(v) == v.tag = "None"
InTable(R, id) == id \in DOMAIN R
Put(R, id, v) == [k \in DOMAIN R \cup {id} |-> IF k = id THEN v ELSE R[k]]

\* An allocation that hands out the first id again.
request_output_id_again(R, id) == Put(R, 1, PyNone)

\* request_output_id: the fresh id enters the table as None.
request_output_id(R, id) == Put(R, id, PyNone)

RECURSIVE RequestIds(_, _, _)
RequestIds(R, id, n) ==
    IF n = 0 THEN R ELSE RequestIds(request_output_id(R, id), id + 1, n - 1)

\* submit_results: self._results[result_id] = result.serialize() for every
\* item.  The assignment to a dict item cannot raise KeyError, so the
\* except clause is never taken.
RECURSIVE submit_results(_, _, _)
submit_results(R, d, i) ==
    IF i > Len(d) THEN [results |-> R, err |-> ""]
    ELSE submit_results(Put(R, d[i].k, Result_serialize(d[i].v)), d, i + 1)

\* A loop that takes whatever the table holds, None included.
RECURSIVE ResolveUnchecked(_, _, _, _)
ResolveUnchecked(R, dd, i, acc) ==
    IF i > Len(dd) THEN [deps |-> acc, err |-> ""]
    ELSE IF ~InTable(R, dd[i]) THEN [deps |-> acc, err |-> "KeyError"]
    ELSE ResolveUnchecked(R, dd, i + 1, DictSet(acc, dd[i], R[dd[i]]))

\* submit_tasks, lines 53-63: the loop over task.data_dependencies.
RECURSIVE ResolveDependencies(_, _, _, _)
ResolveDependencies(R, dd, i, acc) ==
    IF i > Len(dd) THEN [deps |-> acc, err |-> ""]
    ELSE IF ~InTable(R, dd[i]) THEN [deps |-> acc, err |-> "KeyError"]
    ELSE IF IsNone(R[dd[i]]) THEN [deps |-> acc, err |-> "BackendError"]
    ELSE ResolveDependencies(R, dd, i + 1, DictSet(acc, dd[i], R[dd[i]]))

(***************************************************************************)
(* WorkerProcessingInstance (common/processing.py).                        *)
(***************************************************************************)
\* __init__, lines 48-50: the named inputs.
RECURSIVE InstanceInputs(_, _, _, _)
InstanceInputs(names, dd, i, acc) ==
    IF i > Len(names) THEN [inputs |-> acc, err |-> ""]
    ELSE IF ~DictHas(dd, names[i].v) THEN [inputs |-> acc, err |-> "KeyError"]
    ELSE IF Result_deserialize_raises(DictGet(dd, names[i].v))
         THEN [inputs |-> acc, err |-> "TypeError"]
    ELSE InstanceInputs(names, dd, i + 1,
             DictSet(acc, names[i].k,
                     Result_deserialize(DictGet(dd, names[i].v))))

\* __init__, lines 52-58: [*output_names.values()] in expected_output_ids or
\* == expected_output_ids.  Ids are strings, so no element of
\* expected_output_ids is itself a list: the first test is never true.
OutputIdsAccepted(output_names, expected_output_ids) ==
    DictValues(output_names) = expected_output_ids

Instance_init(task, dd) ==
    LET p == Payload_deserialize(task.payload)
        ins == IF Len(p.dependency_names) > 0 /\ Len(dd) > 0
               THEN InstanceInputs(p.dependency_names, dd, 1, <<>>)
               ELSE [inputs |-> <<>>, err |-> ""]
    IN IF ins.err /= ""
       THEN [opcode |-> p.opcode, output_names |-> p.expected_output_names,
             inputs |-> <<>>, options |-> p.params, err |-> ins.err]
       ELSE IF ~OutputIdsAccepted(p.expected_output_names,
                                  task.expected_output_ids)
       THEN [opcode |-> p.opcode, output_names |-> p.expected_output_names,
             inputs |-> ins.inputs, options |-> p.params, err |-> "ValueError"]
       ELSE [opcode |-> p.opcode, output_names |-> p.expected_output_names,
             inputs |-> ins.inputs, options |-> p.params, err |-> ""]

\* The numeric library (scipy.linalg.blas / lapack, numpy): opaque, a
\* deterministic function of the opcode, the named inputs and the options.
\* It rejects an input that is not an array (the unpickled None).
NamedInputs(inputs, names) == [k \in names |-> DictGet(inputs, k)]

Kernel(opcode, inputs, options, names, out) ==
    IF \E k \in names : ~DictHas(inputs, k)
    THEN {[outputs |-> <<>>, err |-> "KeyError"]}
    ELSE IF \E k \in names : IsNone(DictGet(inputs, k))
    THEN {[outputs |-> <<>>, err |-> "LibraryError"]}
    ELSE {[outputs |-> << [k |-> out,
                           v |-> KernelArr(opcode, NamedInputs(inputs, names),
                                           options)] >>,
           err |-> ""]}

\* Whether lapack.dpotrf accepts the array (info = 0).  It rejects NotSPD,
\* and c - a a^T (what syrk returns for alpha = -1, beta = 1) when it
\* rejects c: taking a a^T away from a matrix that is not positive definite
\* leaves one that is not either.
RECURSIVE PositiveDefinite(_)
PositiveDefinite(v) ==
    IF v = NotSPD THEN FALSE
    ELSE IF v.op = SYRK /\ v.params.alpha = -1 /\ v.params.beta = 1
         THEN PositiveDefinite(v.args["c"])
    ELSE TRUE

\* np.random.random: the draws of the "diag" generator.
RandomDraws == {Arr(1), Arr(2)}

\* process(), lines 78-128.
process(inst) ==
    CASE inst.opcode = DRGM ->
            IF ~("gen" \in DOMAIN inst.options /\ "size" \in DOMAIN inst.options
                 /\ "idx" \in DOMAIN inst.options)
            THEN {[outputs |-> <<>>, err |-> "KeyError"]}
            ELSE IF inst.options.gen = "eye"
            THEN {[outputs |-> << [k |-> "a",
                                   v |-> KernelArr(DRGM, <<>>, inst.options)] >>,
                   err |-> ""]}
            ELSE IF inst.options.gen = "diag"
            THEN IF inst.options.idx.items[1] = inst.options.idx.items[2]
                 THEN {[outputs |-> << [k |-> "a", v |-> r] >>, err |-> ""] :
                         r \in RandomDraws}
                 ELSE {[outputs |-> << [k |-> "a",
                                        v |-> KernelArr(DRGM, <<>>,
                                                        inst.options)] >>,
                        err |-> ""]}
            ELSE {[outputs |-> <<>>, err |-> "RuntimeError"]}
      [] inst.opcode = POTRF ->
            IF DictHas(inst.inputs, "a")
               /\ ~PositiveDefinite(DictGet(inst.inputs, "a"))
            THEN {[outputs |-> <<>>, err |-> "RuntimeError"]}
            ELSE Kernel(POTRF, inst.inputs, inst.options, {"a"}, "l")
      [] inst.opcode = TRSM ->
            Kernel(TRSM, inst.inputs, inst.options, {"a", "b"}, "x")
      [] inst.opcode = SYRK ->
            Kernel(SYRK, inst.inputs, inst.options, {"a", "c"}, "c")
      [] inst.opcode = GEMM ->
            Kernel(GEMM, inst.inputs, inst.options, {"a", "b", "c"}, "c")
      [] inst.opcode = ONES ->
            {[outputs |-> << [k |-> "o",
                              v |-> KernelArr(ONES, <<>>, inst.options)] >>,
              err |-> ""]}
      [] OTHER -> {[outputs |-> <<>>, err |-> "RuntimeError"]}

\* get_results(), lines 139-143: the outputs keyed by their ids, serialized.
RECURSIVE get_results(_, _, _, _)
get_results(output_names, outputs, i, acc) ==
    IF i > Len(outputs) THEN [results |-> acc, err |-> ""]
    ELSE IF ~DictHas(output_names, outputs[i].k)
         THEN [results |-> acc, err |-> "KeyError"]
    ELSE get_results(output_names, outputs, i + 1,
             DictSet(acc, DictGet(output_names, outputs[i].k),
                     Result_serialize(outputs[i].v)))

\* A loop that drops the results of the task.
WriteNothing(R, d, i) == R

\* A loop that leaves the ids of the results marked as not produced.
WriteResultsAsNone(R, d, i) ==
    [k \in DOMAIN R \cup {d[j].k : j \in 1..Len(d)} |->
        IF \E j \in 1..Len(d) : d[j].k = k THEN PyNone ELSE R[k]]

\* submit_tasks, lines 68-69: the results are written into the table.
RECURSIVE WriteResults(_, _, _)
WriteResults(R, d, i) ==
    IF i > Len(d) THEN R ELSE WriteResults(Put(R, d[i].k, d[i].v), d, i + 1)

\* submit_tasks as a whole, from task i on: every way the call can end, as
\* the table it leaves and the exception it raises.
RECURSIVE submit_tasks(_, _, _)
submit_tasks(R, list, i) ==
    IF i > Len(list) THEN {[results |-> R, err |-> ""]}
    ELSE
    UNION {
      IF r.err /= "" THEN {[results |-> R, err |-> r.err]}
      ELSE UNION {
        IF inst.err /= "" THEN {[results |-> R, err |-> inst.err]}
        ELSE UNION {
          IF o.err /= "" THEN {[results |-> R, err |-> o.err]}
          ELSE UNION {
            IF g.err /= "" THEN {[results |-> R, err |-> g.err]}
            ELSE submit_tasks(WriteResults(R, g.results, 1), list, i + 1)
            : g \in {get_results(inst.output_names, o.outputs, 1, <<>>)}}
          : o \in process(inst)}
        : inst \in {Instance_init(list[i], r.deps)}}
      : r \in {IF Len(list[i].data_dependencies) > 0
               THEN ResolveDependencies(R, list[i].data_dependencies, 1, <<>>)
               ELSE [deps |-> <<>>, err |-> ""]}}

(***************************************************************************)
(* SessionContext.run on a DummyBackend (backend/base.py, lines 140-142):  *)
(* _pre_compile, submit_results, _compile, submit_tasks, in this order.    *)
(***************************************************************************)
_pre_compile(G, R, id) ==
    LET N == AssignIds(G.nodes, 1, id)
    IN [nodes |-> N,
        results |-> RequestIds(R, id, NumData(G.nodes)),
        nextId |-> id + NumData(G.nodes),
        seeds |-> SeedResults(Graph(N, G.edges), 1, <<>>)]

Run ==
    /\ pc = "idle"
    /\ runs = 0
    /\ submits = 0
    /\ backend = "DummyBackend"
    /\ LET pre == _pre_compile(G0, results, nextId)
       IN /\ nodes' = pre.nodes
          /\ results' = pre.results
          /\ nextId' = pre.nextId
          /\ seeds' = pre.seeds
    /\ calls' = [NoCalls EXCEPT !.request_output_id = NumData(nodes)]
    /\ pc' = "run_submit_results"
    /\ op' = "run"
    /\ err' = ""
    /\ runs' = runs + 1
    /\ tasks' = <<>>
    /\ ti' = 0
    /\ deps' = <<>>
    /\ outs' = <<>>
    /\ written' = <<>>
    /\ stage' = ""
    /\ UNCHANGED << sessionVars, programVars, scopeVars, workerVars >>
    /\ UNCHANGED << edges, backend, session_id, submits, gets, reply, got >>

\* A run that goes on to the task list without uploading the seeds.
RunWithoutUpload ==
    /\ pc = "run_submit_results"
    /\ pc' = "run_compile"
    /\ UNCHANGED << graphVars, backendVars, op, err, calls, frameVars,
                    runs, submits, gets, reply, got,
                    stage, sessionVars, programVars, scopeVars, workerVars >>

RunSubmitResults ==
    /\ pc = "run_submit_results"
    /\ LET r == submit_results(results, seeds, 1)
       IN /\ results' = r.results
          /\ err' = r.err
          /\ pc' = IF r.err = "" THEN "run_compile" ELSE "idle"
    /\ calls' = [calls EXCEPT !.submit_results = @ + 1]
    /\ UNCHANGED << graphVars, backend, session_id, nextId, op, frameVars,
                    runs, submits, gets, reply, got,
                    stage, sessionVars, programVars, scopeVars, workerVars >>

RunCompile ==
    /\ pc = "run_compile"
    /\ \E c \in _compile(G0) :
          IF c.err /= ""
          THEN /\ err' = c.err
               /\ pc' = "idle"
               /\ UNCHANGED << tasks, ti, calls >>
          ELSE /\ tasks' = c.tasks
               /\ ti' = 1
               /\ calls' = [calls EXCEPT !.submit_tasks = @ + 1]
               /\ pc' = IF c.tasks = <<>> THEN "idle" ELSE "submit_resolve"
               /\ err' = ""
    /\ UNCHANGED << graphVars, backendVars, op, deps, outs, seeds, written,
                    runs, submits, gets, reply, got,
                    stage, sessionVars, programVars, scopeVars, workerVars >>

(***************************************************************************)
(* DummyBackend.submit_tasks, one task at a time: resolve the declared     *)
(* inputs, run the kernel, write the outputs.  An exception leaves the     *)
(* loop and the call.                                                      *)
(***************************************************************************)
Raise(e, where) ==
    /\ err' = e
    /\ stage' = where
    /\ UNCHANGED << sessionVars, programVars, scopeVars, workerVars >>
    /\ pc' = "idle"
    /\ deps' = <<>>
    /\ outs' = <<>>

SubmitResolve ==
    /\ pc = "submit_resolve"
    /\ LET dd == tasks[ti].data_dependencies
           r == IF Len(dd) > 0 THEN ResolveDependencies(results, dd, 1, <<>>)
                ELSE [deps |-> <<>>, err |-> ""]
       IN IF r.err /= ""
          THEN Raise(r.err, "dependencies")
          ELSE /\ deps' = r.deps
               /\ pc' = "submit_kernel"
               /\ UNCHANGED << err, outs, stage, sessionVars, programVars,
                               scopeVars, workerVars >>
    /\ UNCHANGED << graphVars, backendVars, op, tasks, ti, seeds, calls,
                    written, runs, submits, gets, reply, got >>

SubmitKernel ==
    /\ pc = "submit_kernel"
    /\ \E inst \in {Instance_init(tasks[ti], deps)} :
          IF inst.err /= ""
          THEN Raise(inst.err, "__init__")
          ELSE \E o \in process(inst) :
                  IF o.err /= ""
                  THEN Raise(o.err, "process")
                  ELSE /\ outs' = o.outputs
                       /\ pc' = "submit_write"
                       /\ UNCHANGED << err, deps, stage, sessionVars, programVars,
                                       scopeVars, workerVars >>
    /\ UNCHANGED << graphVars, backendVars, op, tasks, ti, seeds, calls,
                    written, runs, submits, gets, reply, got >>

SubmitWrite ==
    /\ pc = "submit_write"
    /\ LET names == Payload_deserialize(tasks[ti].payload).expected_output_names
           g == get_results(names, outs, 1, <<>>)
       IN IF g.err /= ""
          THEN /\ Raise(g.err, "get_results")
               /\ UNCHANGED << results, written, ti >>
          ELSE /\ results' = WriteResults(results, g.results, 1)
               /\ written' = written \o DictKeys(g.results)
               /\ ti' = ti + 1
               /\ pc' = IF ti = Len(tasks) THEN "idle" ELSE "submit_resolve"
               /\ deps' = <<>>
               /\ outs' = <<>>
               /\ UNCHANGED << err, stage, sessionVars, programVars,
                               scopeVars, workerVars >>
    /\ UNCHANGED << graphVars, backend, session_id, nextId, op, tasks, seeds,
                    calls, runs, submits, gets, reply, got >>

RunSteps == RunSubmitResults \/ RunCompile
SubmitSteps == SubmitResolve \/ SubmitKernel \/ SubmitWrite

(***************************************************************************)
(* Fetching.  A backend's get_result returns a Result, returns None or     *)
(* raises: [none, array, err].                                             *)
(***************************************************************************)
Fetched(array) == [none |-> FALSE, array |-> array, err |-> ""]
FetchedNone == [none |-> TRUE, array |-> PyNone, err |-> ""]
FetchRaised(e) == [none |-> TRUE, array |-> PyNone, err |-> e]

\* DummyBackend.get_result: Result.deserialize(self._results[result_id]).
Dummy_get_result(R, result_id) ==
    IF ~InTable(R, result_id) THEN FetchRaised("KeyError")
    ELSE IF Result_deserialize_raises(R[result_id]) THEN FetchRaised("TypeError")
    ELSE Fetched(Result_deserialize(R[result_id]))

\* DummyBackend.wait_for_availability: ResultAvailability(), no errors.
Dummy_wait_for_availability == {"available"}

\* ArmoniKBackend.wait_for_availability: None without a session; otherwise
\* what the fabric answers: available, errored, or None (wait cancelled).
ArmoniK_wait_for_availability(session) ==
    IF session = NoId THEN {"None"} ELSE {"available", "errored", "None"}

\* What the fabric holds for a result: nothing, or its bytes.
FabricResults == {PyNone, Bytes(Arr(1))}

\* ArmoniKBackend.get_result, given the fabric's answer.
ArmoniK_get_result(session, result_id, answer) ==
    IF session = NoId THEN FetchedNone
    ELSE IF result_id = NoId THEN FetchRaised("ValueError")
    ELSE IF IsNone(answer) THEN FetchRaised("BackendError")
    ELSE Fetched(Result_deserialize(answer))

\* (get_data_node_fetch_anyway is a get_data_node that does not look at
\* is_available() and fetches whatever the reply says.)
\* SessionContext.get_data_node (backend/base.py, lines 216-225), given the
\* reply of wait_for_availability and what get_result does if it is called:
\* the node's values afterwards, the exception, the backend calls made.
get_data_node_fetch_anyway(values, rep, fetch) ==
    IF rep = "None"
    THEN [values |-> values, err |-> "AttributeError",
          calls |-> [NoCalls EXCEPT !.wait_for_availability = 1]]
    ELSE [values |-> IF fetch.err = "" /\ ~fetch.none THEN fetch.array
                     ELSE values,
          err |-> IF fetch.err /= "" THEN fetch.err
                  ELSE IF fetch.none THEN "RuntimeError" ELSE "",
          calls |-> [NoCalls EXCEPT !.wait_for_availability = 1,
                                    !.get_result = 1]]

\* (get_data_node_storing_anyway is a get_data_node that stores what the
\* fetch gave before looking at it, None included.)
get_data_node_storing_anyway(values, rep, fetch) ==
    IF rep = "None"
    THEN [values |-> values, err |-> "AttributeError",
          calls |-> [NoCalls EXCEPT !.wait_for_availability = 1]]
    ELSE IF rep = "available"
    THEN [values |-> fetch.array,
          err |-> IF fetch.err /= "" THEN fetch.err
                  ELSE IF fetch.none THEN "RuntimeError" ELSE "",
          calls |-> [NoCalls EXCEPT !.wait_for_availability = 1,
                                    !.get_result = 1]]
    ELSE [values |-> values, err |-> "RuntimeError",
          calls |-> [NoCalls EXCEPT !.wait_for_availability = 1]]

get_data_node(values, rep, fetch) ==
    IF rep = "None"
    THEN [values |-> values, err |-> "AttributeError",
          calls |-> [NoCalls EXCEPT !.wait_for_availability = 1]]
    ELSE IF rep = "available"
    THEN [values |-> IF fetch.err = "" /\ ~fetch.none THEN fetch.array
                     ELSE values,
          err |-> IF fetch.err /= "" THEN fetch.err
                  ELSE IF fetch.none THEN "RuntimeError" ELSE "",
          calls |-> [NoCalls EXCEPT !.wait_for_availability = 1,
                                    !.get_result = 1]]
    ELSE [values |-> values, err |-> "RuntimeError",
          calls |-> [NoCalls EXCEPT !.wait_for_availability = 1]]

GetOutcome(i, r) ==
    /\ nodes' = [nodes EXCEPT ![i].values = r.values]
    /\ err' = r.err
    /\ calls' = r.calls
    /\ op' = "get_data_node"
    /\ gets' = gets + 1
    /\ UNCHANGED << edges, backendVars, pc, frameVars, runs, submits, stage,
                    sessionVars, programVars, scopeVars, workerVars >>

\* sc.get(data_node) on the reference backend, after sc.run(g).
GetDataNode ==
    /\ pc = "idle"
    /\ runs > 0
    /\ gets < MaxGets
    /\ backend = "DummyBackend"
    /\ \E i \in DataIds, rep \in Dummy_wait_for_availability :
          /\ reply' = rep
          /\ got' = i
          /\ GetOutcome(i, get_data_node(nodes[i].values, rep,
                            Dummy_get_result(results, nodes[i].result_id)))

\* sc.get(data_node) on the distributed backend.
GetDataNodeArmoniK ==
    /\ pc = "idle"
    /\ gets < MaxGets
    /\ backend = "ArmoniKBackend"
    /\ \E i \in DataIds, rep \in ArmoniK_wait_for_availability(session_id),
          answer \in FabricResults :
          /\ reply' = rep
          /\ got' = i
          /\ GetOutcome(i, get_data_node(nodes[i].values, rep,
                            ArmoniK_get_result(session_id, nodes[i].result_id,
                                               answer)))

\* The session requests (create, cancel) among the requests sent so far.
SessionRequests(log) ==
    {k \in 1..Len(log) : log[k] \in {"create_session", "cancel_session"}}

\* ArmoniKBackend.create_session: the request goes to the fabric and the
\* fabric's session id is kept.
CreateSession ==
    /\ pc = "idle"
    /\ backend = "ArmoniKBackend"
    /\ Cardinality(SessionRequests(fabric)) < MaxRequests
    /\ session_id' = 1
    /\ fabric' = Append(fabric, "create_session")
    /\ op' = "create_session"
    /\ err' = ""
    /\ UNCHANGED << graphVars, backend, results, nextId, pc, frameVars, calls,
                    runs, submits, gets, reply, got,
                    stage, sessions, inSession, programVars,
                    scopeVars, workerVars >>

\* ArmoniKBackend.cancel_session (gp.py, lines 61-64): the request is sent
\* when _session_id is not None; _session_id is left as it is.
cancel_session(session, log) ==
    [session_id |-> session,
     fabric |-> IF session /= NoId THEN Append(log, "cancel_session") ELSE log]

CancelSession ==
    /\ pc = "idle"
    /\ backend = "ArmoniKBackend"
    /\ Cardinality(SessionRequests(fabric)) < MaxRequests
    /\ LET r == cancel_session(session_id, fabric)
       IN /\ session_id' = r.session_id
          /\ fabric' = r.fabric
    /\ op' = "cancel_session"
    /\ err' = ""
    /\ UNCHANGED << graphVars, backend, results, nextId, pc, frameVars, calls,
                    runs, submits, gets, reply, got,
                    stage, sessions, inSession, programVars,
                    scopeVars, workerVars >>

(***************************************************************************)
(* SessionContext._pre_compile on ArmoniKBackend (base.py, lines 144-170;  *)
(* gp.py, lines 123-128).  An id value carries its Python type here:       *)
(* request_output_id returns list(result_ids), the list of the one id the  *)
(* fabric created, and returns None when no session was created.  A list   *)
(* is unhashable, so the first seed's results[node.result_id] = ... raises *)
(* TypeError; None is hashable, so without a session every seed lands      *)
(* under the one key None.                                                 *)
(***************************************************************************)
PyStr(k) == [type |-> "str", items |-> << k >>]
PyNoneType == [type |-> "NoneType", items |-> <<>>]
Hashable(v) == v.type /= "list"

ArmoniK_request_output_id(session, id) ==
    IF session = NoId THEN PyNoneType ELSE PyList(<< PyStr(id) >>)

RECURSIVE ArmoniK_AssignIds(_, _, _, _)
ArmoniK_AssignIds(N, i, session, id) ==
    IF i > Len(N) THEN N
    ELSE IF IsDataNode(N[i])
         THEN ArmoniK_AssignIds(
                  [N EXCEPT ![i].result_id = ArmoniK_request_output_id(session, id)],
                  i + 1, session, id + 1)
         ELSE ArmoniK_AssignIds(N, i + 1, session, id)

ArmoniK_pre_compile(G, session, id, log) ==
    LET N == ArmoniK_AssignIds(G.nodes, 1, session, id)
        H == Graph(N, G.edges)
        unhashable == \E i \in 1..Len(N) :
                          IsSeed(H, i) /\ ~Hashable(N[i].result_id)
    IN [nodes |-> N,
        nextId |-> IF session = NoId THEN id ELSE id + NumData(N),
        fabric |-> IF session = NoId THEN log
                   ELSE log \o [k \in 1..NumData(N) |-> "get_results_ids"],
        err |-> IF unhashable THEN "TypeError" ELSE "",
        seeds |-> IF unhashable THEN <<>> ELSE SeedResults(H, 1, <<>>)]

\* sc._pre_compile(g) on the distributed backend: the graph is handed to
\* the session, which ends its construction.
PreCompileArmoniK ==
    /\ pc = "idle"
    /\ runs = 0
    /\ backend = "ArmoniKBackend"
    /\ LET pre == ArmoniK_pre_compile(G0, session_id, nextId, fabric)
       IN /\ nodes' = pre.nodes
          /\ nextId' = pre.nextId
          /\ fabric' = pre.fabric
          /\ err' = pre.err
          /\ seeds' = pre.seeds
    /\ calls' = [NoCalls EXCEPT !.request_output_id = NumData(nodes)]
    /\ op' = "_pre_compile"
    /\ runs' = runs + 1
    /\ UNCHANGED << edges, backend, session_id, results, pc, tasks, ti, deps,
                    outs, written, submits, gets, reply, got, stage, sessions,
                    inSession, programVars, scopeVars, workerVars >>

(***************************************************************************)
(* ArmoniKGraph._check_integrity (graph/graph.py, lines 27-43).            *)
(* type(rn) == type(ln) compares the exact classes.                        *)
(***************************************************************************)
_check_integrity(G) ==
    IF ~is_directed_acyclic_graph(G) THEN "GraphIntegrityError"
    ELSE IF \E j \in 1..Len(G.edges) :
               G.nodes[G.edges[j].u].kind = G.nodes[G.edges[j].v].kind
         THEN "GraphIntegrityError"
    ELSE ""

CheckIntegrity ==
    /\ Building
    /\ op' = "_check_integrity"
    /\ err' = _check_integrity(G0)
    /\ UNCHANGED << graphVars, backendVars, pc, frameVars, calls, runs,
                    submits, gets, reply, got,
                    stage, sessionVars, programVars, scopeVars, workerVars >>

(***************************************************************************)
(* Graphs made with the nx.DiGraph interface ArmoniKGraph inherits.  The   *)
(* node objects exist from the start; add_edge joins any two of them.      *)
(* Edges are added in increasing order of (u, v), and each edge is tagged  *)
(* with a role name unique in its direction on its control node.           *)
(***************************************************************************)
RawNodes ==
    << DataNode(Arr(1)), TileNode(Arr(1)), TileNode(PyNone),
       ControlNode(POTRF, [lower |-> 1, clean |-> 0, overwrite_a |-> 0]),
       ControlNode(POTRF, [lower |-> 1, clean |-> 0, overwrite_a |-> 0]) >>

InputRoles == << "a", "b", "c", "d", "e" >>
OutputRoles == << "l", "x", "c", "o", "p" >>

AddEdge ==
    /\ Building
    /\ Len(edges) < MaxRawEdges
    /\ \E u \in NodeIds, v \in NodeIds :
          /\ u /= v
          /\ \A j \in 1..Len(edges) :
                edges[j].u < u \/ (edges[j].u = u /\ edges[j].v < v)
          /\ edges' =
                IF IsControlNode(nodes[u])
                THEN add_edge(edges, u, v, "",
                              OutputRoles[out_degree(edges, u) + 1])
                ELSE add_edge(edges, u, v,
                              InputRoles[in_degree(edges, v) + 1], "")
    /\ op' = "add_edge"
    /\ err' = ""
    /\ UNCHANGED << nodes, backendVars, pc, frameVars, calls, runs, submits,
                    gets, reply, got, stage, sessionVars, programVars,
                    scopeVars, workerVars >>

(***************************************************************************)
(* The backend driven directly: request_output_id, submit_results and      *)
(* submit_tasks called by hand on a DummyBackend.                          *)
(***************************************************************************)
RequestOutputId ==
    /\ pc = "idle"
    /\ submits = 0
    /\ backend = "DummyBackend"
    /\ nextId <= MaxIds
    /\ results' = request_output_id(results, nextId)
    /\ nextId' = nextId + 1
    /\ op' = "request_output_id"
    /\ err' = ""
    /\ UNCHANGED << graphVars, backend, session_id, pc, frameVars, calls, runs,
                    submits, gets, reply, got,
                    stage, sessionVars, programVars, scopeVars, workerVars >>

\* submit_results({id: Result(v)}) by hand: an id handed out and not yet
\* uploaded (ids are uploaded in increasing order), or one never handed out.
SubmitResultsCall ==
    /\ pc = "idle"
    /\ submits = 0
    /\ backend = "DummyBackend"
    /\ \E id \in (1..(nextId - 1)) \cup {ForeignId}, v \in {Arr(1), NotSPD} :
          /\ IF InTable(results, id) THEN IsNone(results[id]) ELSE TRUE
          /\ \A j \in 1..(nextId - 1) : j > id => IsNone(results[j])
          /\ id = ForeignId => v = Arr(1)
          /\ LET r == submit_results(results, << [k |-> id, v |-> v] >>, 1)
             IN /\ results' = r.results
                /\ err' = r.err
                /\ seeds' = << [k |-> id, v |-> v] >>
    /\ op' = "submit_results"
    /\ UNCHANGED << graphVars, backend, session_id, nextId, pc, tasks, ti,
                    deps, outs, written, calls, runs, submits, gets, reply, got,
                    stage, sessionVars, programVars, scopeVars, workerVars >>

\* Task definitions as _compile writes them, over the ids handed out.
PotrfTask(a, l) ==
    TaskDefinition(
        Payload_serialize(Payload(POTRF, << [k |-> "l", v |-> l] >>,
                                  << [k |-> "a", v |-> a] >>,
                                  [lower |-> 1, clean |-> 0, overwrite_a |-> 0])),
        << l >>, << a >>)

TrsmTask(a, b, x) ==
    TaskDefinition(
        Payload_serialize(Payload(TRSM, << [k |-> "x", v |-> x] >>,
                                  << [k |-> "a", v |-> a], [k |-> "b", v |-> b] >>,
                                  [alpha |-> 1, side |-> 1, lower |-> 1,
                                   trans_a |-> 1, diag |-> 0, overwrite_b |-> 0])),
        << x >>, << a, b >>)

\* Every potrf over the ids; the trsm tasks read two different ids.
TaskChoices(ids) ==
    {PotrfTask(a, l) : a \in ids, l \in ids}
    \cup {TrsmTask(t[1], t[2], t[3]) :
             t \in {t \in ids \X ids \X ids :
                       t[1] < t[2] /\ t[3] > 1 /\ t[3] + 1 \notin ids}}

RECURSIVE TaskLists(_, _)
TaskLists(ids, n) ==
    IF n = 0 THEN {<<>>}
    ELSE LET shorter == TaskLists(ids, n - 1)
         IN shorter \cup {Append(l, t) : l \in shorter, t \in TaskChoices(ids)}

SubmitTasksCall ==
    /\ pc = "idle"
    /\ submits = 0
    /\ backend = "DummyBackend"
    /\ \E list \in TaskLists(1..(nextId - 1), MaxTasks) :
          /\ tasks' = list
          /\ pc' = IF list = <<>> THEN "idle" ELSE "submit_resolve"
    /\ ti' = 1
    /\ op' = "submit_tasks"
    /\ err' = ""
    /\ written' = <<>>
    /\ deps' = <<>>
    /\ outs' = <<>>
    /\ submits' = submits + 1
    /\ calls' = [NoCalls EXCEPT !.submit_tasks = 1]
    /\ stage' = ""
    /\ UNCHANGED << sessionVars, programVars, scopeVars, workerVars >>
    /\ UNCHANGED << graphVars, backendVars, seeds, runs, gets, reply, got >>

(***************************************************************************)
(* Specifications.                                                         *)
(*   Spec         a graph made by the operator builders, run on and        *)
(*                fetched from the reference backend                       *)
(*   GraphSpec    a graph made with add_edge, checked and run              *)
(*   BackendSpec  the reference backend driven directly                    *)
(*   FabricSpec   fetching from the distributed backend                    *)
(***************************************************************************)
Next == Build \/ Run \/ RunSteps \/ SubmitSteps \/ GetDataNode

Spec == Init /\ [][Next]_vars

InitGraph ==
    /\ nodes = RawNodes
    /\ edges = <<>>
    /\ backend = "DummyBackend"
    /\ session_id = NoId
    /\ results = <<>>
    /\ nextId = 1
    /\ pc = "idle"
    /\ op = ""
    /\ err = ""
    /\ tasks = <<>>
    /\ ti = 0
    /\ deps = <<>>
    /\ outs = <<>>
    /\ seeds = <<>>
    /\ calls = NoCalls
    /\ written = <<>>
    /\ runs = 0
    /\ submits = 0
    /\ gets = 0
    /\ reply = ""
    /\ got = 0
    /\ stage = ""
    /\ sessions = 0
    /\ inSession = FALSE
    /\ fabric = <<>>
    /\ arrays = <<>>
    /\ arg = NoArg
    /\ graphs = <<>>
    /\ current_graph = NoGraph
    /\ scopes = <<>>
    /\ sent = <<>>
    /\ output = NoOutput
    /\ submitted = <<>>

GraphNext == AddEdge \/ CheckIntegrity \/ Run \/ RunSteps \/ SubmitSteps

GraphSpec == InitGraph /\ [][GraphNext]_vars

BackendNext ==
    RequestOutputId \/ SubmitResultsCall \/ SubmitTasksCall \/ SubmitSteps

BackendSpec == Init /\ [][BackendNext]_vars

\* The program of examples/cholesky.py and its like: arrays filled from
\* numpy arrays, then one algorithm generator, inside the `with g:` block.
\* bad = d > 0 makes the d-th diagonal tile of a one that is not positive
\* definite.  The input arrays have MaxInputTiles tiles at most.
MatrixValues(p, bad) ==
    [idx \in (0..(p - 1)) \X (0..(p - 1)) |->
        IF idx[1] = idx[2] /\ idx[1] + 1 = bad THEN NotSPD ELSE Arr(1)]

VectorValues(p) == [idx \in (0..(p - 1)) \X (0..0) |-> Arr(1)]

CholeskyCall ==
    /\ Building
    /\ nodes = <<>>
    /\ \E p \in 1..MaxInputTiles, bad \in 0..MaxInputTiles :
          /\ p * p <= MaxInputTiles
          /\ bad <= p
          /\ LET a == from_numpy([G |-> G0, dta |-> Empty(p, p)], p, p, 0,
                                 MatrixValues(p, bad))
             IN SetGraph(cholesky(a.G, a.dta, p).G)

SolveCall ==
    /\ Building
    /\ nodes = <<>>
    /\ \E p \in 1..MaxInputTiles, bad \in 0..MaxInputTiles :
          /\ p * p + p <= MaxInputTiles
          /\ bad <= p
          /\ LET a == from_numpy([G |-> G0, dta |-> Empty(p, p)], p, p, 0,
                                 MatrixValues(p, bad))
                 b == from_numpy([G |-> a.G, dta |-> Empty(p, 1)], p, 1, 0,
                                 VectorValues(p))
             IN SetGraph(solve(b.G, a.dta, b.dta, p).G)

AlgoNext == CholeskyCall \/ SolveCall \/ Run \/ RunSteps \/ SubmitSteps

AlgoSpec == Init /\ [][AlgoNext]_vars

\* The substitutions called on their own, on a fully populated array: as
\* solve calls them, forward_substitution(a, b, lower=True) and
\* backward_substitution(a, b, trans=True, lower=True).
ForwardCall ==
    /\ Building
    /\ nodes = <<>>
    /\ \E p \in 1..MaxInputTiles :
          /\ p * p + p <= MaxInputTiles
          /\ LET a == from_numpy([G |-> G0, dta |-> Empty(p, p)], p, p, 0,
                                 MatrixValues(p, 0))
                 b == from_numpy([G |-> a.G, dta |-> Empty(p, 1)], p, 1, 0,
                                 VectorValues(p))
             IN SetGraph(forward_substitution(b.G, a.dta, b.dta, p, 0, 1).G)

BackwardCall ==
    /\ Building
    /\ nodes = <<>>
    /\ \E p \in 1..MaxInputTiles :
          /\ p * p + p <= MaxInputTiles
          /\ LET a == from_numpy([G |-> G0, dta |-> Empty(p, p)], p, p, 0,
                                 MatrixValues(p, 0))
                 b == from_numpy([G |-> a.G, dta |-> Empty(p, 1)], p, 1, 0,
                                 VectorValues(p))
             IN SetGraph(backward_substitution(b.G, a.dta, b.dta, p, 1, 1).G)

\* Graph construction alone: the operator builders, the tile assignments
\* and the algorithm generators, and the integrity check of what they made.
ConstructNext ==
    Build \/ CholeskyCall \/ SolveCall \/ ForwardCall \/ BackwardCall
    \/ CheckIntegrity

ConstructSpec == Init /\ [][ConstructNext]_vars

(***************************************************************************)
(* The algorithm generators called on the arrays the program holds.  A     *)
(* DTArray is [shape, tiles]: shape as numpy reports it, tiles the grid of *)
(* its nodes (for a 2-dimensional array).                                  *)
(***************************************************************************)
TileValues(r, c) == [idx \in (0..(r - 1)) \X (0..(c - 1)) |-> Arr(1)]

\* DTArray.from_numpy(label, array, tile_size) for an array cut into r x c
\* tiles; an array with no row or no column gives an array with no tile.
FromNumpy ==
    /\ Building
    /\ ControlIds = {}
    /\ Len(arrays) < MaxArrays
    /\ \E r \in 0..MaxDim, c \in 0..MaxDim :
          /\ Len(nodes) + r * c <= MaxArrayTiles
          /\ LET st == from_numpy([G |-> G0, dta |-> Empty(r, c)], r, c, 0,
                                  TileValues(r, c))
             IN /\ nodes' = st.G.nodes
                /\ edges' = st.G.edges
                /\ arrays' = Append(arrays, [shape |-> << r, c >>,
                                             tiles |-> st.dta])
    /\ op' = "from_numpy"
    /\ err' = ""
    /\ UNCHANGED << backendVars, frameVars, pc, calls, runs, submits, gets,
                    reply, got, stage, sessionVars, arg,
                    scopeVars, workerVars >>

\* DTArray(shape, label) with a shape of one or three dimensions: np.empty
\* of that shape, no tile.
NewArray ==
    /\ Building
    /\ ControlIds = {}
    /\ Len(arrays) < MaxArrays
    /\ \E n \in 1..MaxDim :
          \E shape \in {<< n >>, << n, n, n >>} :
              arrays' = Append(arrays, [shape |-> shape, tiles |-> <<>>])
    /\ op' = "DTArray"
    /\ err' = ""
    /\ UNCHANGED << graphVars, backendVars, frameVars, pc, calls, runs,
                    submits, gets, reply, got, stage, sessionVars, arg,
                    scopeVars, workerVars >>

\* cholesky, lines 5-12: the tests on a.shape.
cholesky_shape_check(shape) ==
    IF Len(shape) /= 2 THEN "ValueError"
    ELSE IF shape[1] /= shape[2] THEN "ValueError"
    ELSE IF shape[1] < 1 THEN "ValueError"
    ELSE ""

\* cholesky(a) on a DTArray: the graph it leaves and the exception.
cholesky_call(G, a) ==
    IF cholesky_shape_check(a.shape) /= ""
    THEN [G |-> G, err |-> cholesky_shape_check(a.shape)]
    ELSE [G |-> cholesky(G, a.tiles, a.shape[1]).G, err |-> ""]

\* A solve that takes every assumption for 'spd'.
solve_any_assumption(G, a, b, assume_a) ==
    [G |-> solve(G, a.tiles, b.tiles, a.shape[1]).G, err |-> ""]

\* solve(a, b, assume_a="gen"): the match statement.
solve_call(G, a, b, assume_a) ==
    IF assume_a = "spd"
    THEN [G |-> solve(G, a.tiles, b.tiles, a.shape[1]).G, err |-> ""]
    ELSE [G |-> G, err |-> "NotImplementedError"]

GeneratorOutcome(r) ==
    /\ nodes' = r.G.nodes
    /\ edges' = r.G.edges
    /\ err' = r.err
    /\ UNCHANGED << backendVars, frameVars, pc, calls, runs, submits, gets,
                    reply, got, stage, sessionVars, arrays,
                    scopeVars, workerVars >>

CholeskyOn ==
    /\ Building
    /\ ControlIds = {}
    /\ \E k \in 1..Len(arrays) :
          /\ arg' = [NoArg EXCEPT !.a = k]
          /\ GeneratorOutcome(cholesky_call(G0, arrays[k]))
    /\ op' = "cholesky"

\* The assumptions a caller passes; "gen" is the default of solve.
Assumptions == {"gen", "spd", "sym", "pos"}

\* solve(a, b, assume_a) on a p x p array and a p x 1 array.
SolveOn ==
    /\ Building
    /\ ControlIds = {}
    /\ \E ka \in 1..Len(arrays), kb \in 1..Len(arrays),
          assume_a \in Assumptions :
          /\ Len(arrays[ka].shape) = 2 /\ Len(arrays[kb].shape) = 2
          /\ arrays[ka].shape[1] >= 1
          /\ arrays[ka].shape[2] = arrays[ka].shape[1]
          /\ arrays[kb].shape = << arrays[ka].shape[1], 1 >>
          /\ arg' = [a |-> ka, b |-> kb, assume_a |-> assume_a]
          /\ GeneratorOutcome(solve_call(G0, arrays[ka], arrays[kb], assume_a))
    /\ op' = "solve"

GeneratorNext == FromNumpy \/ NewArray \/ CholeskyOn \/ SolveOn

GeneratorSpec == Init /\ [][GeneratorNext]_vars

InitFabric ==
    /\ nodes = <<>>
    /\ edges = <<>>
    /\ backend = "ArmoniKBackend"
    /\ session_id = NoId
    /\ results = <<>>
    /\ nextId = 1
    /\ pc = "idle"
    /\ op = ""
    /\ err = ""
    /\ tasks = <<>>
    /\ ti = 0
    /\ deps = <<>>
    /\ outs = <<>>
    /\ seeds = <<>>
    /\ calls = NoCalls
    /\ written = <<>>
    /\ runs = 0
    /\ submits = 0
    /\ gets = 0
    /\ reply = ""
    /\ got = 0
    /\ stage = ""
    /\ sessions = 0
    /\ inSession = FALSE
    /\ fabric = <<>>
    /\ arrays = <<>>
    /\ arg = NoArg
    /\ graphs = <<>>
    /\ current_graph = NoGraph
    /\ scopes = <<>>
    /\ sent = <<>>
    /\ output = NoOutput
    /\ submitted = <<>>

FabricNext == NewTile \/ CreateSession \/ GetDataNodeArmoniK

FabricSpec == InitFabric /\ [][FabricNext]_vars

\* A program that builds a graph, opens and cancels sessions on the
\* distributed backend and pre-compiles the graph.
FabricSessionNext ==
    NewTile \/ Potrf \/ RemoteGen \/ CreateSession \/ CancelSession \/ PreCompileArmoniK

FabricSessionSpec == InitFabric /\ [][FabricSessionNext]_vars

(***************************************************************************)
(* Sessions on the reference backend (base.py, lines 38-42; dummy.py,      *)
(* lines 28-49).  new_session calls create_session, yields a               *)
(* SessionContext on the backend and calls cancel_session at the end of    *)
(* the with block.  DummyBackend's create_session returns a string and     *)
(* cancel_session passes: the table _results, made in __init__, is left as *)
(* it is by both.                                                          *)
(***************************************************************************)
Dummy_create_session(R) == R
Dummy_cancel_session(R) == R

\* `with backend.new_session() as sc:` is entered.
EnterSession ==
    /\ pc = "idle"
    /\ backend = "DummyBackend"
    /\ ~inSession
    /\ sessions < MaxSessions
    /\ results' = Dummy_create_session(results)
    /\ sessions' = sessions + 1
    /\ inSession' = TRUE
    /\ op' = "new_session"
    /\ err' = ""
    /\ UNCHANGED << graphVars, backend, session_id, nextId, pc, frameVars, calls,
                    runs, submits, gets, reply, got, stage, fabric, programVars,
                    scopeVars, workerVars >>

\* The with block of new_session is left.
ExitSession ==
    /\ pc = "idle"
    /\ backend = "DummyBackend"
    /\ inSession
    /\ results' = Dummy_cancel_session(results)
    /\ inSession' = FALSE
    /\ op' = "cancel_session"
    /\ err' = ""
    /\ UNCHANGED << graphVars, backend, session_id, nextId, pc, frameVars, calls,
                    runs, submits, gets, reply, got, stage, sessions, fabric,
                    programVars, scopeVars, workerVars >>

\* sc.run(g) on a graph that was run before, in this session or an earlier
\* one: run starts with _pre_compile whatever the nodes hold.
RunAgain ==
    /\ pc = "idle"
    /\ runs \in 1..(MaxRuns - 1)
    /\ backend = "DummyBackend"
    /\ LET pre == _pre_compile(G0, results, nextId)
       IN /\ nodes' = pre.nodes
          /\ results' = pre.results
          /\ nextId' = pre.nextId
          /\ seeds' = pre.seeds
    /\ calls' = [NoCalls EXCEPT !.request_output_id = NumData(nodes)]
    /\ pc' = "run_submit_results"
    /\ op' = "run"
    /\ err' = ""
    /\ runs' = runs + 1
    /\ tasks' = <<>>
    /\ ti' = 0
    /\ deps' = <<>>
    /\ outs' = <<>>
    /\ written' = <<>>
    /\ stage' = ""
    /\ UNCHANGED << sessionVars, programVars, scopeVars, workerVars >>
    /\ UNCHANGED << edges, backend, session_id, submits, gets, reply, got >>

\* A program that builds a graph and runs it, once or again, inside or
\* outside the sessions it opens one after the other on one backend.
SessionNext ==
    \/ NewTile
    \/ Potrf
    \/ EnterSession
    \/ ExitSession
    \/ Run
    \/ RunAgain
    \/ RunSteps
    \/ SubmitSteps
    \/ GetDataNode

SessionSpec == Init /\ [][SessionNext]_vars

(***************************************************************************)
(* The working graph (graph/graph.py, lines 10-25).  graph.current_graph   *)
(* is one module-level name: __enter__ binds it to the graph entered,      *)
(* __exit__ binds it to None whatever the with block did and lets the      *)
(* exception through.  Here nodes holds the node objects of the program    *)
(* and graphs[k] the node objects and the edges of the k-th ArmoniKGraph.  *)
(* A builder called while current_graph is None raises AttributeError on   *)
(* None.add_node / None.add_edges_from.                                    *)
(***************************************************************************)
EmptyGraph == [members |-> {}, edges |-> <<>>]

\* An __exit__ that goes back to the graph of the enclosing with block.
exit_to_enclosing(sc) == IF Len(sc) > 1 THEN sc[Len(sc) - 1] ELSE NoGraph

enter_graph(k) == k
exit_graph(sc) == NoGraph

\* The k-th graph as the builders see it: its edges over the node objects.
ScopeGraph(k) == Graph(nodes, graphs[k].edges)

EndPoints(E) == {E[i].u : i \in 1..Len(E)} \cup {E[i].v : i \in 1..Len(E)}

ScopeFrame ==
    UNCHANGED << edges, backendVars, frameVars, pc, calls, runs, submits, gets,
                 reply, got, stage, sessionVars, programVars, workerVars >>

\* g = ArmoniKGraph()
NewGraph ==
    /\ Len(graphs) < MaxGraphs
    /\ graphs' = Append(graphs, EmptyGraph)
    /\ op' = "ArmoniKGraph"
    /\ err' = ""
    /\ UNCHANGED << nodes, current_graph, scopes >>
    /\ ScopeFrame

\* `with g:` is entered.
EnterGraph ==
    /\ Len(scopes) < MaxScopes
    /\ \E k \in 1..Len(graphs) :
          /\ current_graph' = enter_graph(k)
          /\ scopes' = Append(scopes, k)
    /\ op' = "__enter__"
    /\ err' = ""
    /\ UNCHANGED << nodes, graphs >>
    /\ ScopeFrame

\* The innermost with block is left, at its end or by an exception.
ExitGraph ==
    /\ scopes /= <<>>
    /\ current_graph' = exit_graph(scopes)
    /\ scopes' = SubSeq(scopes, 1, Len(scopes) - 1)
    /\ op' = "__exit__"
    /\ \E exc \in {"", "RuntimeError"} : err' = exc
    /\ UNCHANGED << nodes, graphs >>
    /\ ScopeFrame

\* What a builder that leaves H of the working graph does to the program.
InWorkingGraph(H) ==
    /\ nodes' = H.nodes
    /\ graphs' = [graphs EXCEPT ![current_graph] =
                     [members |-> @.members \cup (Len(nodes) + 1)..Len(H.nodes)
                                            \cup EndPoints(H.edges),
                      edges |-> H.edges]]
    /\ err' = ""

\* a[i, j] = TileNode(...): the tile is the caller's; add_node needs a
\* working graph.
ScopeSetItem ==
    /\ Len(nodes) + 1 <= MaxScopeNodes
    /\ \E v \in SeedValues :
          IF current_graph = NoGraph
          THEN /\ nodes' = Append(nodes, TileNode(v))
               /\ err' = "AttributeError"
               /\ UNCHANGED graphs
          ELSE InWorkingGraph(DTArray_setitem(ScopeGraph(current_graph),
                                              TileNode(v)))
    /\ op' = "__setitem__"
    /\ UNCHANGED << current_graph, scopes >>
    /\ ScopeFrame

ScopePotrf ==
    /\ Len(nodes) + 2 <= MaxScopeNodes
    /\ \E a \in DataIds :
          IF current_graph = NoGraph
          THEN /\ err' = "AttributeError"
               /\ UNCHANGED << nodes, graphs >>
          ELSE InWorkingGraph(tile_potrf(ScopeGraph(current_graph), a, 1, 0, 0))
    /\ op' = "tile_potrf"
    /\ UNCHANGED << current_graph, scopes >>
    /\ ScopeFrame

\* A program that makes graphs, enters and leaves their with blocks, and
\* assigns tiles and calls builders inside and outside of them.
ScopeNext ==
    \/ NewGraph
    \/ EnterGraph
    \/ ExitGraph
    \/ ScopeSetItem
    \/ ScopePotrf

ScopeSpec == Init /\ [][ScopeNext]_vars

(***************************************************************************)
(* Operator builder calls, each with the inputs the caller supplied        *)
(* (graph/ops/blas.py, lapack.py, gen.py).  A caller may supply one tile   *)
(* for two inputs.                                                         *)
(***************************************************************************)
DataOf(G) == {i \in 1..Len(G.nodes) : IsDataNode(G.nodes[i])}

BuilderCalls(G) ==
    {[builder |-> "tile_potrf", inputs |-> << a >>,
      G |-> tile_potrf(G, a, 1, 0, 0)] : a \in DataOf(G)}
    \cup
    {[builder |-> "tile_trsm", inputs |-> << ab[1], ab[2] >>,
      G |-> tile_trsm(G, 1, ab[1], ab[2], 1, 1, 1, 0)]
        : ab \in DataOf(G) \X DataOf(G)}
    \cup
    {[builder |-> "tile_syrk", inputs |-> << ac[1], ac[2] >>,
      G |-> tile_syrk(G, -1, ac[1], ac[2], 1, 0, 1)]
        : ac \in DataOf(G) \X DataOf(G)}
    \cup
    {[builder |-> "tile_gemm", inputs |-> << ab[1], ab[2] >>,
      G |-> tile_gemm(G, -1, ab[1], ab[2], 0, 0, 0, 1)]
        : ab \in DataOf(G) \X DataOf(G)}
    \cup
    {[builder |-> "tile_gemm", inputs |-> << abc[1], abc[2], abc[3] >>,
      G |-> tile_gemm(G, -1, abc[1], abc[2], 1, abc[3], 0, 1)]
        : abc \in DataOf(G) \X DataOf(G) \X DataOf(G)}
    \cup
    {[builder |-> "remote_dtarray_generator", inputs |-> <<>>,
      G |-> remote_dtarray_generator(G, n_dim, 2, "eye")]
        : n_dim \in 1..MaxGenDim}

BuilderFrame ==
    UNCHANGED << backendVars, frameVars, pc, calls, runs, submits, gets, reply,
                 got, stage, sessionVars, arrays, scopeVars, workerVars >>

\* A tile assigned into an array before the first builder call.
BuilderTile ==
    /\ ControlIds = {}
    /\ Len(nodes) < MaxBuilderTiles
    /\ \E v \in SeedValues :
          /\ nodes' = DTArray_setitem(G0, TileNode(v)).nodes
          /\ edges' = edges
    /\ op' = "__setitem__"
    /\ err' = ""
    /\ UNCHANGED arg
    /\ BuilderFrame

\* The builder calls made so far: one control node per call, but for the
\* generator, which is called at most once here.
Generated == \E c \in ControlIds : nodes[c].opcode = DRGM
BuilderCallsMade ==
    Cardinality({c \in ControlIds : nodes[c].opcode /= DRGM})
        + (IF Generated THEN 1 ELSE 0)

BuilderCall ==
    /\ BuilderCallsMade < MaxBuilderCalls
    /\ \E call \in BuilderCalls(G0) :
          /\ call.builder = "remote_dtarray_generator" => ~Generated
          /\ nodes' = call.G.nodes
          /\ edges' = call.G.edges
          /\ arg' = [builder |-> call.builder, inputs |-> call.inputs]
          /\ op' = call.builder
    /\ err' = ""
    /\ BuilderFrame

BuilderNext == BuilderTile \/ BuilderCall

BuilderSpec == Init /\ [][BuilderNext]_vars

(***************************************************************************)
(* The worker (worker.py, processor, lines 31-68).  The instance is made   *)
(* outside the try block, so what __init__ raises leaves processor; of     *)
(* what process() raises only RuntimeError is caught and returned as an    *)
(* error Output, before any send_result; otherwise every result of         *)
(* get_results is sent and an empty Output returned.                       *)
(***************************************************************************)
OutputOk == "Output()"
OutputError == "Output(error)"

\* A processor that sends what it has and reports success whatever
\* process() raised.
processor_swallowing(handler) ==
    {IF inst.err /= ""
     THEN [sent |-> <<>>, output |-> NoOutput, err |-> inst.err]
     ELSE [sent |-> <<>>, output |-> OutputOk, err |-> ""]
     : inst \in {Instance_init([payload |-> handler.payload,
                                expected_output_ids |-> handler.expected_results],
                               handler.data_dependencies)}}

processor(handler) ==
    UNION {
      IF inst.err /= ""
      THEN {[sent |-> <<>>, output |-> NoOutput, err |-> inst.err]}
      ELSE UNION {
        IF o.err = "RuntimeError"
        THEN {[sent |-> <<>>, output |-> OutputError, err |-> ""]}
        ELSE IF o.err /= ""
        THEN {[sent |-> <<>>, output |-> NoOutput, err |-> o.err]}
        ELSE {IF g.err /= ""
              THEN [sent |-> <<>>, output |-> NoOutput, err |-> g.err]
              ELSE [sent |-> g.results, output |-> OutputOk, err |-> ""]
              : g \in {get_results(inst.output_names, o.outputs, 1, <<>>)}}
        : o \in process(inst)}
      : inst \in {Instance_init([payload |-> handler.payload,
                                 expected_output_ids |-> handler.expected_results],
                                handler.data_dependencies)}}

\* The task handlers the agent hands to the worker: a payload of one of the
\* opcodes, declaring one output or two, the expected result ids, and the
\* data dependencies: none, those the payload names (holding an array, an
\* array that is not positive definite, or a pickled None), or others.
WorkerPayloads ==
    {Payload(oc[1], outs_, oc[2], oc[3]) :
        oc \in {<< POTRF, << [k |-> "a", v |-> 3] >>,
                   [lower |-> 1, clean |-> 0, overwrite_a |-> 0] >>,
                << TRSM, << [k |-> "a", v |-> 3], [k |-> "b", v |-> 4] >>,
                   [alpha |-> 1, side |-> 1, lower |-> 1, trans_a |-> 1,
                    diag |-> 0, overwrite_b |-> 0] >>,
                << GEMM, << [k |-> "a", v |-> 3], [k |-> "b", v |-> 4] >>,
                   [alpha |-> -1, beta |-> 0, trans_a |-> 0, trans_b |-> 1,
                    overwrite_c |-> 0] >>,
                << DRGM, <<>>,
                   [gen |-> "eye", size |-> 2, idx |-> PyList(<< 0, 0 >>)] >>},
        outs_ \in {<< [k |-> "l", v |-> 1] >>,
                   << [k |-> "x", v |-> 1] >>,
                   << [k |-> "c", v |-> 1] >>,
                   << [k |-> "a", v |-> 1] >>,
                   << [k |-> "l", v |-> 1], [k |-> "m", v |-> 2] >>}}

ExpectedResults == {<< 1 >>, << 2 >>, << 1, 2 >>, << 2, 1 >>}

WorkerDependencies ==
    {<<>>, << [k |-> ForeignId, v |-> Bytes(Arr(1))] >>}
    \cup {<< [k |-> 3, v |-> v], [k |-> 4, v |-> Bytes(Arr(1))] >>
             : v \in {Bytes(Arr(1)), Bytes(NotSPD), PyNone}}

TaskHandlers ==
    {[payload |-> Payload_serialize(p), expected_results |-> e,
      data_dependencies |-> d]
        : p \in WorkerPayloads, e \in ExpectedResults,
          d \in WorkerDependencies}

\* The agent calls processor(task_handler) once.
Processor ==
    /\ op = ""
    /\ \E handler \in TaskHandlers :
          /\ arg' = handler
          /\ \E r \in processor(handler) :
                /\ sent' = r.sent
                /\ output' = r.output
                /\ err' = r.err
    /\ op' = "processor"
    /\ UNCHANGED << graphVars, backendVars, frameVars, pc, calls, runs, submits,
                    gets, reply, got, stage, sessionVars, arrays, scopeVars,
                    submitted >>

WorkerSpec == Init /\ [][Processor]_vars

\* The two executors of a task: the reference backend driven directly, or
\* the worker called once by the agent.
ExecutorNext == (op /= "processor" /\ BackendNext) \/ Processor

ExecutorSpec == Init /\ [][ExecutorNext]_vars

(***************************************************************************)
(* Payloads through serialize and deserialize (payload.py 35-68).  The     *)
(* optional maps are None, empty, or what _compile and the builders put    *)
(* there; GENERATE tasks carry the index pair of their tile.               *)
(***************************************************************************)
OpCodes == {DRGM, POTRF, TRSM, SYRK, GEMM, ONES}

PayloadOutputs == {<< [k |-> "c", v |-> 1] >>, << [k |-> "l", v |-> 2] >>}

\* The optional maps by kind: absent (None), empty, or present.
PayloadDependencies(kind) ==
    CASE kind = "None" -> PyNone
      [] kind = "empty" -> <<>>
      [] kind = "a" -> << [k |-> "a", v |-> 1] >>
      [] OTHER -> << [k |-> "a", v |-> 1], [k |-> "b", v |-> 2] >>

PayloadParams(kind, i, j) ==
    CASE kind = "None" -> PyNone
      [] kind = "empty" -> <<>>
      [] kind = "potrf" -> [lower |-> 1, clean |-> 0, overwrite_a |-> 0]
      [] OTHER -> [gen |-> "eye", size |-> 2, idx |-> PyTuple(<< i, j >>)]

DependencyKinds == {"None", "empty", "a", "ab"}
ParamKinds == {"None", "empty", "potrf", "drgm"}

\* Payload.deserialize(p.serialize()) for one payload p.
RoundTrip ==
    /\ op = ""
    /\ \E oc \in OpCodes, o \in PayloadOutputs, d \in DependencyKinds,
          pm \in ParamKinds, i \in 0..(MaxGenDim - 1), j \in 0..(MaxGenDim - 1) :
          \E p \in {Payload(oc, o, PayloadDependencies(d), PayloadParams(pm, i, j))} :
             arg' = [p |-> p,
                     decoded |-> Payload_deserialize(Payload_serialize(p))]
    /\ op' = "Payload.deserialize"
    /\ UNCHANGED << graphVars, backendVars, frameVars, pc, calls, runs, submits,
                    gets, reply, got, stage, err, sessionVars, arrays, scopeVars,
                    workerVars >>

RoundTripSpec == Init /\ [][RoundTrip]_vars

(***************************************************************************)
(* The same task list run twice on the reference backend, each time on a   *)
(* new DummyBackend with the output ids requested and the seed uploaded.   *)
(***************************************************************************)
MaxRerunTasks == 2
MaxRerunIds == 3

GenTask(gen, i, j, a) ==
    TaskDefinition(
        Payload_serialize(Payload(DRGM, << [k |-> "a", v |-> a] >>, <<>>,
                                  [gen |-> gen, size |-> 2,
                                   idx |-> PyTuple(<< i, j >>)])),
        << a >>, <<>>)

SyrkTask(a, c, x) ==
    TaskDefinition(
        Payload_serialize(Payload(SYRK, << [k |-> "c", v |-> x] >>,
                                  << [k |-> "a", v |-> a], [k |-> "c", v |-> c] >>,
                                  [alpha |-> -1, beta |-> 1, trans |-> 0,
                                   lower |-> 1, overwrite_c |-> 0])),
        << x >>, << a, c >>)

GemmTask(a, b, c, x) ==
    TaskDefinition(
        Payload_serialize(Payload(GEMM, << [k |-> "c", v |-> x] >>,
                                  << [k |-> "a", v |-> a], [k |-> "b", v |-> b],
                                     [k |-> "c", v |-> c] >>,
                                  [alpha |-> -1, beta |-> 1, trans_a |-> 0,
                                   trans_b |-> 1, overwrite_c |-> 0])),
        << x >>, << a, b, c >>)

\* Tasks over the ids: id 1 holds the seed, the others are outputs.
RerunChoices(ids) ==
    {GenTask(gen, i, j, a) : gen \in {"eye", "diag"}, i \in {0}, j \in 0..1,
                             a \in ids \ {1}}
    \cup {PotrfTask(a, l) : a \in ids, l \in ids \ {1}}
    \cup {TrsmTask(1, a, x) : a \in ids \ {1}, x \in ids \ {1}}
    \cup {SyrkTask(a, 1, x) : a \in ids \ {1}, x \in ids \ {1}}
    \cup {GemmTask(1, a, a, x) : a \in ids \ {1}, x \in ids \ {1}}

RECURSIVE RerunLists(_, _)
RerunLists(ids, n) ==
    IF n = 0 THEN {<<>>}
    ELSE LET shorter == RerunLists(ids, n - 1)
         IN shorter \cup {Append(l, t) : l \in shorter, t \in RerunChoices(ids)}

\* A new backend, its ids requested and the seed uploaded under id 1.
FreshSession(seed) ==
    submit_results(RequestIds(<<>>, 1, MaxRerunIds),
                   << [k |-> 1, v |-> seed] >>, 1).results

\* submit_tasks(list) on a fresh session, and again on another.
RunTwice ==
    /\ op = ""
    /\ \E seed \in {Arr(1), NotSPD},
          list \in RerunLists(1..MaxRerunIds, MaxRerunTasks) :
          \E first \in submit_tasks(FreshSession(seed), list, 1),
             second \in submit_tasks(FreshSession(seed), list, 1) :
             arg' = [tasks |-> list, seed |-> seed,
                     first |-> first, second |-> second]
    /\ op' = "submit_tasks"
    /\ UNCHANGED << graphVars, backendVars, frameVars, pc, calls, runs, submits,
                    gets, reply, got, stage, err, sessionVars, arrays, scopeVars,
                    workerVars >>

RerunSpec == Init /\ [][RunTwice]_vars

(***************************************************************************)
(* Fetching more than once: sc.get on a node after an earlier sc.get, with *)
(* runs of the graph in between.                                           *)
(***************************************************************************)
MaxFetches == 3

GetDataNodeAgain ==
    /\ pc = "idle"
    /\ runs > 0
    /\ gets \in MaxGets..(MaxFetches - 1)
    /\ backend = "DummyBackend"
    /\ \E i \in DataIds, rep \in Dummy_wait_for_availability :
          /\ reply' = rep
          /\ got' = i
          /\ GetOutcome(i, get_data_node(nodes[i].values, rep,
                            Dummy_get_result(results, nodes[i].result_id)))

ValuesNext ==
    \/ NewTile
    \/ Potrf
    \/ Run
    \/ RunAgain
    \/ RunSteps
    \/ SubmitSteps
    \/ GetDataNode
    \/ GetDataNodeAgain

ValuesSpec == Init /\ [][ValuesNext]_vars

(***************************************************************************)
(* ArmoniKBackend.submit_tasks (gp.py, lines 66-84).  Without a session    *)
(* the body is skipped and the call returns.  With one, the list goes to   *)
(* the fabric in one submit request; the client answers with the tasks it  *)
(* submitted and the submission errors; the tasks are appended to          *)
(* _submitted_tasks, then the first error, if any, is raised as            *)
(* BackendError.                                                           *)
(***************************************************************************)
MaxSubmits == 2

\* The answers of the client to a list: each task submitted or in error.
SubmitAnswers(list) ==
    {[tasks |-> SelectSeq([i \in 1..Len(list) |-> [i |-> i, t |-> list[i]]],
                          LAMBDA x : verdict[x.i] = "submitted"),
      errors |-> SelectSeq([i \in 1..Len(list) |-> [i |-> i, t |-> list[i]]],
                           LAMBDA x : verdict[x.i] = "error")]
       : verdict \in [1..Len(list) -> {"submitted", "error"}]}

ArmoniK_submit_tasks(session, list, answer, log, done) ==
    IF session = NoId
    THEN [fabric |-> log, submitted |-> done, err |-> ""]
    ELSE [fabric |-> Append(log, "submit"),
          submitted |-> done \o answer.tasks,
          err |-> IF Len(answer.errors) > 0 THEN "BackendError" ELSE ""]

SubmitTasksArmoniK ==
    /\ pc = "idle"
    /\ backend = "ArmoniKBackend"
    /\ submits < MaxSubmits
    /\ \E list \in TaskLists({1}, MaxTasks) :
          \E answer \in SubmitAnswers(list) :
             /\ arg' = [session |-> session_id, tasks |-> list,
                        answer |-> IF session_id = NoId
                                   THEN [tasks |-> <<>>, errors |-> <<>>]
                                   ELSE answer]
             /\ \E r \in {ArmoniK_submit_tasks(session_id, list, answer,
                                                fabric, submitted)} :
                   /\ fabric' = r.fabric
                   /\ submitted' = r.submitted
                   /\ err' = r.err
    /\ submits' = submits + 1
    /\ op' = "submit_tasks"
    /\ UNCHANGED << graphVars, backendVars, frameVars, pc, calls, runs, gets,
                    reply, got, stage, sessions, inSession, arrays, scopeVars,
                    sent, output >>

SubmitFabricNext == CreateSession \/ CancelSession \/ SubmitTasksArmoniK

SubmitFabricSpec == InitFabric /\ [][SubmitFabricNext]_vars

(***************************************************************************)
(* The example (examples/cholesky.py): a 6 x 6 matrix in tiles of size 2,  *)
(* cholesky(a), run on the reference backend.  The matrices are the        *)
(* products l0 l0^T of integer lower-triangular l0 with positive diagonal, *)
(* on which every kernel computes in integers without rounding; seed tile  *)
(* number n holds block n of the matrix, and the kernels are evaluated on  *)
(* the arrays the run produced.                                            *)
(***************************************************************************)
MatrixSize == 6
BlockSize == 2
NumBlocks == MatrixSize \div BlockSize
MaxDiag == 2
MaxOff == 1

RECURSIVE Dot(_, _, _)
Dot(x, y, k) == IF k = 0 THEN 0 ELSE x[k] * y[k] + Dot(x, y, k - 1)

\* x y^T for n x n matrices given as sequences of rows.
MatMulT(x, y, n) == [i \in 1..n |-> [j \in 1..n |-> Dot(x[i], y[j], n)]]

LowerFactors ==
    {[i \in 1..MatrixSize |->
        [j \in 1..MatrixSize |->
            IF i = j THEN d[(i % 2) + 1]
            ELSE IF j < i THEN (IF (i + j) % 2 = 1 THEN o ELSE 1)
            ELSE 0]]
       : d \in [1..2 -> 1..MaxDiag], o \in (-MaxOff)..MaxOff}

\* array[i*b : i*b + b, j*b : j*b + b] of from_numpy.
Block(A, i, j) ==
    [r \in 1..BlockSize |->
        [c \in 1..BlockSize |-> A[BlockSize * i + r][BlockSize * j + c]]]

TileNumbers ==
    [idx \in (0..(NumBlocks - 1)) \X (0..(NumBlocks - 1)) |->
        Arr(NumBlocks * idx[1] + idx[2] + 1)]

\* A kernel's value: the matrix, and whether it was computed without
\* rounding (square roots of squares, divisions without remainder).
Exactly(m) == [m |-> m, exact |-> TRUE]
Root(n) == IF \E r \in 1..n : r * r = n THEN CHOOSE r \in 1..n : r * r = n ELSE 0
Quot(a, b) == IF b = 0 THEN 0 ELSE a \div b
Divides(b, a) == b /= 0 /\ a % b = 0

\* np.tril(lapack.dpotrf(a, lower=1)): the lower triangle of a is read.
dpotrf(a, options) ==
    LET l11 == Root(a.m[1][1])
        l21 == Quot(a.m[2][1], l11)
        l22 == Root(a.m[2][2] - l21 * l21)
    IN [m |-> << << l11, 0 >>, << l21, l22 >> >>,
        exact |-> /\ a.exact /\ options.lower = 1
                  /\ l11 > 0 /\ Divides(l11, a.m[2][1]) /\ l22 > 0]

\* A solve that does not transpose a: x a = b.
dtrsm_untransposed(a, b, options) ==
    [m |-> [r \in 1..BlockSize |->
              << Quot(b.m[r][1] - Quot(b.m[r][2], a.m[2][2]) * a.m[2][1],
                      a.m[1][1]),
                 Quot(b.m[r][2], a.m[2][2]) >>],
     exact |-> a.exact /\ b.exact]

\* blas.dtrsm(alpha, a, b, side=1, lower=1, trans_a=1): x a^T = alpha b.
dtrsm(a, b, options) ==
    [m |-> [r \in 1..BlockSize |->
              << Quot(options.alpha * b.m[r][1], a.m[1][1]),
                 Quot(options.alpha * b.m[r][2]
                        - Quot(options.alpha * b.m[r][1], a.m[1][1]) * a.m[2][1],
                      a.m[2][2]) >>],
     exact |-> /\ a.exact /\ b.exact
               /\ options.side = 1 /\ options.lower = 1
               /\ options.trans_a = 1 /\ options.diag = 0
               /\ \A r \in 1..BlockSize :
                     /\ Divides(a.m[1][1], options.alpha * b.m[r][1])
                     /\ Divides(a.m[2][2],
                                options.alpha * b.m[r][2]
                                  - Quot(options.alpha * b.m[r][1], a.m[1][1])
                                      * a.m[2][1])]

\* blas.dsyrk(alpha, a, beta, c, trans=0, lower=1): the lower triangle of
\* alpha a a^T + beta c; above the diagonal c is left as it was.
dsyrk(a, c, options) ==
    [m |-> [i \in 1..BlockSize |->
              [j \in 1..BlockSize |->
                  IF j > i THEN c.m[i][j]
                  ELSE options.alpha * Dot(a.m[i], a.m[j], BlockSize)
                         + options.beta * c.m[i][j]]],
     exact |-> a.exact /\ c.exact /\ options.trans = 0 /\ options.lower = 1]

\* blas.dgemm(alpha, a, b, beta, c, trans_a=0, trans_b=1):
\* alpha a b^T + beta c.
dgemm(a, b, c, options) ==
    [m |-> [i \in 1..BlockSize |->
              [j \in 1..BlockSize |->
                  options.alpha * Dot(a.m[i], b.m[j], BlockSize)
                    + options.beta * c.m[i][j]]],
     exact |-> /\ a.exact /\ b.exact /\ c.exact
               /\ options.trans_a = 0 /\ options.trans_b = 1]

\* The array v of a run on the matrix A: a seed tile is its block, the
\* output of a kernel is the kernel applied to the arrays it read.
RECURSIVE ArrayOf(_, _)
ArrayOf(v, A) ==
    IF v.op = POTRF THEN dpotrf(ArrayOf(v.args["a"], A), v.params)
    ELSE IF v.op = TRSM
    THEN dtrsm(ArrayOf(v.args["a"], A), ArrayOf(v.args["b"], A), v.params)
    ELSE IF v.op = SYRK
    THEN dsyrk(ArrayOf(v.args["a"], A), ArrayOf(v.args["c"], A), v.params)
    ELSE IF v.op = GEMM
    THEN dgemm(ArrayOf(v.args["a"], A), ArrayOf(v.args["b"], A),
               ArrayOf(v.args["c"], A), v.params)
    ELSE Exactly(Block(A, (v.n - 1) \div NumBlocks, (v.n - 1) % NumBlocks))

\* with g: a = from_numpy("A", A, 2); l = cholesky(a)
ExampleGraph ==
    LET a == from_numpy([G |-> Graph(<<>>, <<>>),
                         dta |-> Empty(NumBlocks, NumBlocks)],
                        NumBlocks, NumBlocks, 0, TileNumbers)
    IN cholesky(a.G, a.dta, NumBlocks)

FactorCall ==
    /\ Building
    /\ nodes = <<>>
    /\ op = ""
    /\ \E l0 \in LowerFactors : arg' = [matrix |-> MatMulT(l0, l0, MatrixSize)]
    /\ nodes' = ExampleGraph.G.nodes
    /\ edges' = ExampleGraph.G.edges
    /\ op' = "cholesky"
    /\ UNCHANGED << backendVars, frameVars, pc, err, calls, runs, submits, gets,
                    reply, got, stage, sessionVars, arrays, scopeVars,
                    workerVars >>

FactorNext == FactorCall \/ Run \/ RunSteps \/ SubmitSteps

FactorSpec == Init /\ [][FactorNext]_vars

(***************************************************************************)
(* The substitutions called on the arrays the program holds, with the      *)
(* flags a caller may pass.  arg keeps the two arrays and the flags.        *)
(***************************************************************************)
SubstitutionArgs(ka, kb, trans, lower) ==
    [a |-> ka, b |-> kb, assume_a |-> "", trans |-> trans, lower |-> lower]

\* a is p x p and b is p x 1, as the loops of the substitutions index them.
Conformable(ka, kb) ==
    /\ Len(arrays[ka].shape) = 2 /\ Len(arrays[kb].shape) = 2
    /\ arrays[ka].shape[2] = arrays[ka].shape[1]
    /\ arrays[kb].shape = << arrays[ka].shape[1], 1 >>

\* forward_substitution(a, b, trans, lower)
ForwardOn ==
    /\ Building
    /\ ControlIds = {}
    /\ \E ka \in 1..Len(arrays), kb \in 1..Len(arrays),
          trans \in 0..1, lower \in 0..1 :
          /\ Conformable(ka, kb)
          /\ arg' = SubstitutionArgs(ka, kb, trans, lower)
          /\ GeneratorOutcome(
                 [G |-> forward_substitution(G0, arrays[ka].tiles,
                                             arrays[kb].tiles,
                                             arrays[ka].shape[1],
                                             trans, lower).G,
                  err |-> ""])
    /\ op' = "forward_substitution"

\* backward_substitution(a, b, trans, lower)
BackwardOn ==
    /\ Building
    /\ ControlIds = {}
    /\ \E ka \in 1..Len(arrays), kb \in 1..Len(arrays),
          trans \in 0..1, lower \in 0..1 :
          /\ Conformable(ka, kb)
          /\ arg' = SubstitutionArgs(ka, kb, trans, lower)
          /\ GeneratorOutcome(
                 [G |-> backward_substitution(G0, arrays[ka].tiles,
                                              arrays[kb].tiles,
                                              arrays[ka].shape[1],
                                              trans, lower).G,
                  err |-> ""])
    /\ op' = "backward_substitution"

SubstitutionNext == FromNumpy \/ ForwardOn \/ BackwardOn \/ SolveOn

SubstitutionSpec == Init /\ [][SubstitutionNext]_vars

(***************************************************************************)
(* BaseBackend.new_session (base.py, lines 38-42), a generator made a      *)
(* context manager: __enter__ runs it up to the yield, i.e. calls          *)
(* create_session; __exit__ resumes it after the yield when the with block *)
(* ended normally, i.e. calls cancel_session, and throws the exception of  *)
(* the block into it at the yield otherwise, where nothing catches it.     *)
(* The backend is the distributed one, whose session calls are requests to *)
(* the fabric.  err is the exception raised in the block, "" for none.     *)
(***************************************************************************)
\* An exit written with try/finally: cancel_session whatever the block did.
new_session_exit_finally(session, log, e) == cancel_session(session, log)

new_session_exit(session, log, e) ==
    IF e = "" THEN cancel_session(session, log)
    ELSE [session_id |-> session, fabric |-> log]

\* `with backend.new_session() as sc:` is entered.
EnterNewSession ==
    /\ pc = "idle"
    /\ backend = "ArmoniKBackend"
    /\ ~inSession
    /\ sessions < MaxSessions
    /\ session_id' = 1
    /\ fabric' = Append(fabric, "create_session")
    /\ sessions' = sessions + 1
    /\ inSession' = TRUE
    /\ op' = "new_session"
    /\ err' = ""
    /\ UNCHANGED << graphVars, backend, results, nextId, pc, frameVars, calls,
                    runs, submits, gets, reply, got, stage, programVars,
                    scopeVars, workerVars >>

\* A statement of the with block, sc.get(node); an exception ends the block.
SessionBody ==
    /\ inSession
    /\ err = ""
    /\ GetDataNodeArmoniK

\* The with block is left, normally or by the exception a statement raised,
\* which goes on to the caller.
ExitNewSession ==
    /\ pc = "idle"
    /\ backend = "ArmoniKBackend"
    /\ inSession
    /\ LET r == new_session_exit(session_id, fabric, err)
       IN /\ session_id' = r.session_id
          /\ fabric' = r.fabric
    /\ inSession' = FALSE
    /\ op' = "new_session.__exit__"
    /\ UNCHANGED << graphVars, backend, results, nextId, pc, frameVars, calls,
                    runs, submits, gets, reply, got, stage, sessions, err,
                    programVars, scopeVars, workerVars >>

NewSessionNext ==
    NewTile \/ Potrf \/ EnterNewSession \/ SessionBody \/ ExitNewSession

NewSessionSpec == InitFabric /\ [][NewSessionNext]_vars

(***************************************************************************)
(* Properties.  The graph notions they are stated with are defined here    *)
(* from the edges alone, independently of the operators above.             *)
(***************************************************************************)
Elems(s) == {s[i] : i \in 1..Len(s)}

Succ(G, S) == {G.edges[j].v : j \in {j \in 1..Len(G.edges) : G.edges[j].u \in S}}
Pred(G, v) == {G.edges[j].u : j \in {j \in 1..Len(G.edges) : G.edges[j].v = v}}

RECURSIVE Closure(_, _)
Closure(G, S) ==
    LET T == S \cup Succ(G, S) IN IF T = S THEN S ELSE Closure(G, T)

Descendants(G, v) == Closure(G, Succ(G, {v}))
HasCycle(G) == \E v \in 1..Len(G.nodes) : v \in Descendants(G, v)

\* An edge between two data nodes (plain or tile) or two control nodes.
SameKindEdge(G) ==
    \E j \in 1..Len(G.edges) :
        IsDataNode(G.nodes[G.edges[j].u]) = IsDataNode(G.nodes[G.edges[j].v])

WellFormed(G) == ~HasCycle(G) /\ ~SameKindEdge(G)

IdsOf(N, S) == {N[i].result_id : i \in S}

\* run() is past _compile.
Compiled == op = "run" /\ pc \notin {"run_submit_results", "run_compile"}

\* Task t is the task of control node c: its opcode, the ids of the data
\* nodes it writes and of those it reads.
TaskMatches(t, G, c) ==
    /\ Payload_deserialize(t.payload).opcode = G.nodes[c].opcode
    /\ Elems(t.expected_output_ids) = IdsOf(G.nodes, Succ(G, {c}))
    /\ Elems(t.data_dependencies) = IdsOf(G.nodes, Pred(G, c))

OneTaskPerControlNode ==
    \E f \in [1..Len(tasks) -> ControlIds] :
        /\ \A c \in ControlIds : \E k \in 1..Len(tasks) : f[k] = c
        /\ \A k, l \in 1..Len(tasks) : f[k] = f[l] => k = l
        /\ \A k \in 1..Len(tasks) : TaskMatches(tasks[k], G0, f[k])

\* Every dependency is the id of a data node of in-degree 0 or an expected
\* output of a strictly earlier task.
TopologicallyOrdered ==
    \A k \in 1..Len(tasks) : \A dep \in Elems(tasks[k].data_dependencies) :
        \/ \E i \in DataIds : nodes[i].result_id = dep /\ in_degree(edges, i) = 0
        \/ \E j \in 1..(k - 1) : dep \in Elems(tasks[j].expected_output_ids)

\* C1: for an acyclic bipartite graph _compile returns (it does not raise)
\* exactly one task per control node, in a valid topological order: every
\* dependency of a task is a seed's id or an output of an earlier task.
C1_CompileTopological ==
    (Compiled /\ WellFormed(G0)) =>
        /\ calls.submit_tasks = 1
        /\ OneTaskPerControlNode
        /\ TopologicallyOrdered

\* A compiled chain: the second task reads what the first one writes.
C1_Witness ==
    /\ Compiled /\ WellFormed(G0)
    /\ Len(tasks) = 2
    /\ Elems(tasks[2].data_dependencies) \cap Elems(tasks[1].expected_output_ids) /= {}

\* run() goes on to its end: Python runs the statements of run() one after
\* the other, and none of them blocks on the reference backend.
LiveSpec == Spec /\ WF_vars(RunSteps \/ SubmitSteps)

RunDone == op = "run" /\ pc = "idle"
KernelFailed == err /= "" /\ stage = "process"
\* submit_tasks went through the whole task list of the last run().
AllExecuted == runs = 1 /\ ti = Len(tasks) + 1
SeedNode(i) == Pred(G0, i) = {} /\ Succ(G0, {i}) /= {}
HasProducer(i) == Pred(G0, i) /= {}
Realized(id) == InTable(results, id) /\ ~IsNone(results[id])

C2_Safe ==
    /\ op = "run" => err /= "BackendError"
    /\ (RunDone /\ ~KernelFailed) =>
          /\ err = ""
          /\ Len(tasks) = Cardinality(ControlIds)
          /\ AllExecuted
          /\ \A i \in DataIds :
                (SeedNode(i) \/ HasProducer(i)) => Realized(nodes[i].result_id)
    /\ (op = "get_data_node" /\ AllExecuted
          /\ (SeedNode(got) \/ HasProducer(got))) =>
          /\ err = ""
          /\ nodes[got].values = Result_deserialize(results[nodes[got].result_id])

\* C2: run() of a graph made by the operator builders on the reference
\* backend never raises the unresolved-dependency BackendError; unless a
\* kernel fails, it ends after executing one task per control node, with a
\* realized entry for every data node that is a seed or has a producer, and
\* get() of such a node then succeeds; and every run() that starts ends.
C2_RunResolvesAndEnds ==
    /\ []C2_Safe
    /\ [](op = "run" => <>RunDone)

\* A run of two tasks went through and a produced tile was fetched.
C2_Witness ==
    /\ op = "get_data_node" /\ AllExecuted
    /\ Len(tasks) = 2
    /\ HasProducer(got)
    /\ err = ""
    /\ nodes[got].values.op \in {POTRF, TRSM, SYRK, GEMM}

\* The table as run() leaves it before submit_tasks: an entry for every data
\* node, the seeds uploaded.
SeedTable ==
    submit_results(RequestIds(<<>>, 1, NumData(nodes)),
                   SeedResults(G0, 1, <<>>), 1).results

\* The tables submit_tasks can leave, over every task list _compile can
\* return for the graph.
FinalTables ==
    UNION {{f.results : f \in submit_tasks(SeedTable, c.tasks, 1)} :
             c \in _compile(G0)}

ConsumerFirst(j, x) ==
    /\ x \in Elems(tasks[j].data_dependencies)
    /\ \E k \in (j + 1)..Len(tasks) : x \in Elems(tasks[k].expected_output_ids)
    /\ \A i \in 1..(j - 1) : x \notin Elems(tasks[i].expected_output_ids)
    /\ InTable(results, x) /\ IsNone(results[x])

\* C4: when a consumer task comes before the task that produces one of its
\* inputs, submit_tasks never gets past the resolution of the consumer's
\* inputs: the call fails, with BackendError when it reaches the consumer,
\* and the consumer writes none of its outputs.
C4_ConsumerBeforeProducer ==
    \A j \in 1..Len(tasks) : \A x \in Elems(tasks[j].data_dependencies) :
        (op = "submit_tasks" /\ ConsumerFirst(j, x)) =>
            /\ ti <= j
            /\ ti = j => pc \in {"submit_resolve", "idle"}
            /\ pc = "idle" => err /= ""
            /\ (pc = "idle" /\ ti = j) =>
                  (err = "BackendError" /\ stage = "dependencies")
            /\ \A o \in Elems(tasks[j].expected_output_ids) :
                  (\A i \in 1..(j - 1) :
                      o \notin Elems(tasks[i].expected_output_ids))
                  => o \notin Elems(written)

\* The consumer was the first of two tasks and the call has failed on it.
C4_Witness ==
    /\ op = "submit_tasks" /\ pc = "idle"
    /\ Len(tasks) = 2 /\ ti = 1
    /\ \E x \in Elems(tasks[1].data_dependencies) : ConsumerFirst(1, x)
    /\ err = "BackendError"

\* The declared output ids of the first n tasks, in order.
RECURSIVE DeclaredOutputs(_)
DeclaredOutputs(n) ==
    IF n = 0 THEN <<>>
    ELSE DeclaredOutputs(n - 1) \o tasks[n].expected_output_ids

C6_ForeignIdRejected ==
    (op = "submit_results" /\ seeds[1].k = ForeignId) =>
        (err = "BackendError" /\ ~InTable(results, ForeignId))

\* C7: get() of a data node whose id is allocated but holds no payload fails
\* with BackendError and leaves the node's values as they were.
C7_FetchUnproduced ==
    [][(gets' = gets + 1 /\ InTable(results, nodes[got'].result_id)
          /\ IsNone(results[nodes[got'].result_id]))
       => (err' = "BackendError" /\ nodes' = nodes)]_vars

\* C8: when wait_for_availability reports the result as errored,
\* get_data_node raises, has called wait_for_availability once and
\* get_result not at all, and leaves the node's values as they were.
C8_ErroredNotFetched ==
    [][(gets' = gets + 1 /\ reply' = "errored")
       => /\ err' = "RuntimeError"
          /\ calls'.wait_for_availability = 1
          /\ calls'.get_result = 0
          /\ nodes' = nodes]_vars

\* A get on the distributed backend was answered "errored".
C8_Witness ==
    /\ backend = "ArmoniKBackend" /\ session_id /= NoId
    /\ op = "get_data_node" /\ reply = "errored"
    /\ err = "RuntimeError"
    /\ calls.get_result = 0

\* C9: check_integrity fails with GraphIntegrityError exactly when the graph
\* has a directed cycle or an edge joining two nodes of the same kind (two
\* data nodes, plain or tile, or two control nodes).
C9_IntegrityExact ==
    op = "_check_integrity" =>
        /\ err \in {"", "GraphIntegrityError"}
        /\ err = "GraphIntegrityError" <=> (HasCycle(G0) \/ SameKindEdge(G0))

\* C10: run() of a graph with a cycle or a same-kind edge fails with
\* GraphIntegrityError before any id is allocated, any seed uploaded or any
\* task submitted.
C10_IntegrityBeforeRun ==
    (op = "run" /\ ~WellFormed(G0)) =>
        /\ nextId = 1 /\ results = <<>>
        /\ \A i \in DataIds : nodes[i].result_id = NoId
        /\ calls = NoCalls
        /\ pc = "idle" => err = "GraphIntegrityError"

SquareShape(shape) ==
    Len(shape) = 2 /\ shape[1] = shape[2] /\ shape[1] >= 1

\* C12: cholesky on an array that is not 2-dimensional, not square or of
\* size < 1 fails with ConstructionError and leaves the nodes and the edges
\* of the active graph as they were.
C12_IllShapedRejected ==
    [][(op' = "cholesky" /\ ~SquareShape(arrays[arg'.a].shape))
       => (err' = "ConstructionError" /\ nodes' = nodes /\ edges' = edges)]_vars

\* The parts of the opcodes among the control nodes of graph G.
CountOp(G, opcode) ==
    Cardinality({c \in 1..Len(G.nodes) :
                    IsControlNode(G.nodes[c]) /\ G.nodes[c].opcode = opcode})

\* C13: solve builds the Cholesky factorization, then the forward, then the
\* backward substitution when assume_a is 'spd'; for any other assumption,
\* the default one included, it raises NotImplementedError and adds no node
\* and no edge.
C13_SolveOnlySPD ==
    [][op' = "solve" =>
         IF arg'.assume_a = "spd"
         THEN \E p \in {arrays[arg'.a].shape[1]} :
              \E l \in {cholesky(G0, arrays[arg'.a].tiles, p)} :
              \E y \in {forward_substitution(l.G, l.dta, arrays[arg'.b].tiles, p,
                                                0, 1)} :
              \E x \in {backward_substitution(y.G, l.dta, y.dta, p, 1, 1)} :
                 /\ err' = ""
                 /\ nodes' = x.G.nodes /\ edges' = x.G.edges
                 /\ CountOp(x.G, POTRF) = p
                 /\ CountOp(x.G, TRSM) = (p * (p - 1)) \div 2 + 2 * p
         ELSE /\ err' = "NotImplementedError"
              /\ nodes' = nodes /\ edges' = edges]_vars

\* solve was called with the default assumption on a 2 x 2 system and
\* raised.
C13_Witness ==
    /\ op = "solve" /\ arg.assume_a = "gen"
    /\ err = "NotImplementedError"
    /\ arrays[arg.a].shape = << 2, 2 >>
    /\ ControlIds = {}

\* Reading the graph: the control nodes of an opcode that read v in a role,
\* the node a control node reads in a role, the node it writes in a role.
\* 0 stands for "none".
Pick(S) == IF S = {} THEN 0 ELSE CHOOSE x \in S : TRUE

Consumers(G, v, opcode, role) ==
    {c \in 1..Len(G.nodes) :
        /\ IsControlNode(G.nodes[c]) /\ G.nodes[c].opcode = opcode
        /\ \E j \in 1..Len(G.edges) :
              G.edges[j].u = v /\ G.edges[j].v = c /\ G.edges[j].input_name = role}

InputOf(G, c, role) ==
    Pick({G.edges[j].u : j \in {j \in 1..Len(G.edges) :
            G.edges[j].v = c /\ G.edges[j].input_name = role}})

OutputOf(G, c, role) ==
    Pick({G.edges[j].v : j \in {j \in 1..Len(G.edges) :
            G.edges[j].u = c /\ G.edges[j].output_name = role}})

\* The step-k trailing tile at (i, j), i >= j >= k: the input tile at step
\* 0, afterwards what the update of the previous trailing tile wrote.
RECURSIVE Trailing(_, _, _, _, _)
Trailing(G, a, k, i, j) ==
    IF k = 0 THEN a[<< i, j >>]
    ELSE OutputOf(G, Pick(Consumers(G, Trailing(G, a, k - 1, i, j),
                                    IF i = j THEN SYRK ELSE GEMM, "c")), "c")

\* The tile l[i, k] of the factor, i >= k.
Factor(G, a, i, k) ==
    IF i = k
    THEN OutputOf(G, Pick(Consumers(G, Trailing(G, a, k, k, k), POTRF, "a")), "l")
    ELSE OutputOf(G, Pick(Consumers(G, Trailing(G, a, k, i, k), TRSM, "b")), "x")

InDegree(G, c) == Cardinality({j \in 1..Len(G.edges) : G.edges[j].v = c})

CholeskyShaped(G, a, p) ==
    /\ CountOp(G, POTRF) = p
    /\ CountOp(G, TRSM) = (p * (p - 1)) \div 2
    /\ CountOp(G, SYRK) = (p * (p - 1)) \div 2
    /\ CountOp(G, GEMM) = (p * (p - 1) * (p - 2)) \div 6
    /\ CountOp(G, DRGM) = 0 /\ CountOp(G, ONES) = 0
    /\ \A k \in 0..(p - 1) :
          LET cs == Consumers(G, Trailing(G, a, k, k, k), POTRF, "a")
          IN /\ Cardinality(cs) = 1
             /\ InDegree(G, Pick(cs)) = 1
             /\ Factor(G, a, k, k) /= 0
    /\ \A k \in 0..(p - 1) : \A i \in (k + 1)..(p - 1) :
          LET cs == Consumers(G, Trailing(G, a, k, i, k), TRSM, "b")
          IN /\ Cardinality(cs) = 1
             /\ InputOf(G, Pick(cs), "a") = Factor(G, a, k, k)
             /\ InDegree(G, Pick(cs)) = 2
             /\ Factor(G, a, i, k) /= 0
    /\ \A k \in 0..(p - 1) : \A j \in (k + 1)..(p - 1) :
          LET cs == Consumers(G, Trailing(G, a, k, j, j), SYRK, "c")
          IN /\ Cardinality(cs) = 1
             /\ InputOf(G, Pick(cs), "a") = Factor(G, a, j, k)
             /\ InDegree(G, Pick(cs)) = 2
             /\ Trailing(G, a, k + 1, j, j) /= 0
    /\ \A k \in 0..(p - 1) : \A j \in (k + 1)..(p - 1) :
          \A i \in (j + 1)..(p - 1) :
          LET cs == Consumers(G, Trailing(G, a, k, i, j), GEMM, "c")
          IN /\ Cardinality(cs) = 1
             /\ InputOf(G, Pick(cs), "a") = Factor(G, a, i, k)
             /\ InputOf(G, Pick(cs), "b") = Factor(G, a, j, k)
             /\ InDegree(G, Pick(cs)) = 3
             /\ Trailing(G, a, k + 1, i, j) /= 0

\* C14: the graph cholesky makes of a p x p array holds one POTRF per step
\* k on the step-k trailing diagonal tile, one TRSM per (i, k), i > k, of
\* l[k, k] and the trailing tile (i, k), one SYRK per (j, k), j > k, of
\* l[j, k] and the trailing tile (j, j), one GEMM per (i, j, k), i > j > k,
\* of l[i, k], l[j, k] and the trailing tile (i, j), each update writing the
\* next trailing tile, and no other control node.
C14_CholeskyGraph ==
    (op = "cholesky" /\ err = "") =>
        CholeskyShaped(G0, arrays[arg.a].tiles, arrays[arg.a].shape[1])

\* cholesky has run on 4 x 4 tiles: the graph has multiplies at two steps.
C14_Witness ==
    /\ op = "cholesky" /\ err = ""
    /\ arrays[arg.a].shape = << 4, 4 >>
    /\ CountOp(G0, GEMM) = 4

\* The entries of the dict d under key k.
Entries(d, k) == {s \in 1..Len(d) : d[s].k = k}

\* C15: the seeds _pre_compile returns are exactly the data nodes with
\* in-degree 0 and out-degree > 0, each under its own id with its current
\* value; once uploaded they are in the table, while an unused node's entry
\* stays empty and a produced node's entry is empty until its task writes it.
C15_SeedsExact ==
    op = "run" =>
        /\ Len(seeds) = Cardinality({i \in DataIds : SeedNode(i)})
        /\ \A i \in DataIds :
              IF SeedNode(i)
              THEN /\ Cardinality(Entries(seeds, nodes[i].result_id)) = 1
                   /\ \A s \in Entries(seeds, nodes[i].result_id) :
                         seeds[s].v = nodes[i].values
                   /\ pc /= "run_submit_results" =>
                         results[nodes[i].result_id]
                             = Result_serialize(nodes[i].values)
              ELSE /\ Entries(seeds, nodes[i].result_id) = {}
                   /\ nodes[i].result_id \notin Elems(written) =>
                         IsNone(results[nodes[i].result_id])
        /\ calls.submit_results = IF pc = "run_submit_results" THEN 0 ELSE 1

\* A run of a graph with a seed, a produced tile and an unused tile is over.
C15_Witness ==
    /\ op = "run" /\ pc = "idle" /\ err = ""
    /\ \E i \in DataIds : SeedNode(i) /\ ~IsNone(nodes[i].values)
    /\ \E i \in DataIds : HasProducer(i)
    /\ \E i \in DataIds : Pred(G0, i) = {} /\ Succ(G0, {i}) = {}


IsStr(v) == v.type = "str"

\* C16: after pre-compile every data node of the graph holds exactly one
\* external id, a single id value, and two distinct data nodes never hold the
\* same id (stated here for the distributed backend).
C16_OneIdPerDataNode ==
    (op = "_pre_compile" /\ err = "") =>
        /\ \A i \in DataIds : IsStr(nodes[i].result_id)
        /\ \A i, j \in DataIds : i /= j => nodes[i].result_id /= nodes[j].result_id

\* The ids the distributed backend hands out are lists of one id, distinct
\* from node to node, when a session exists, and None when none does.
C16_ListIds ==
    op = "_pre_compile" =>
        \A i \in DataIds :
            IF session_id = NoId
            THEN nodes[i].result_id = PyNoneType
            ELSE /\ nodes[i].result_id.type = "list"
                 /\ Len(nodes[i].result_id.items) = 1
                 /\ IsStr(nodes[i].result_id.items[1])
                 /\ \A j \in DataIds : i /= j => nodes[i].result_id /= nodes[j].result_id

\* C20: cancelling with no created session raises nothing and sends nothing,
\* and a cancellation that follows a cancellation of the same session sends
\* no second cancel request to the fabric.
Cancelled(log) ==
    \E k \in SessionRequests(log) :
        /\ log[k] = "cancel_session"
        /\ \A j \in SessionRequests(log) : j <= k
C20_CancelIdempotent ==
    [][op' = "cancel_session" =>
          /\ err' = ""
          /\ session_id = NoId => UNCHANGED << session_id, fabric >>
          /\ Cancelled(fabric) => fabric' = fabric]_vars

\* Without a created session a cancellation raises nothing and changes
\* nothing.
C20_CancelWithoutSession ==
    [][(op' = "cancel_session" /\ session_id = NoId) =>
          /\ err' = ""
          /\ UNCHANGED << session_id, fabric, results >>]_vars


\* C17: a data node's external id is assigned at most once: once a session
\* has set result_id on a data node, no later operation changes it.
C17_IdAssignedOnce ==
    [][\A i \in DataIds :
          nodes[i].result_id /= NoId => nodes'[i].result_id = nodes[i].result_id]_vars

\* Outside a second run, an id that was set stays.
C17_OnlyRunReassigns ==
    [][(\E i \in DataIds : /\ nodes[i].result_id /= NoId
                            /\ nodes'[i].result_id /= nodes[i].result_id)
          => (runs' = runs + 1 /\ runs >= 1)]_vars

\* C19: each session owns its id->payload table: what an earlier session
\* allocated and stored is not in the table a later session of the same
\* backend object starts with.
C19_SessionStartsEmpty ==
    [][sessions' = sessions + 1 => results' = <<>>]_vars

\* C19, as seen by the program: a fetch in a session only returns a payload
\* when the graph was run since the session was opened.
C19_FetchOwnSessionOnly ==
    [][(op' = "get_data_node" /\ gets' = gets + 1 /\ err' = "" /\ inSession
        /\ nodes'[got'].values /= nodes[got'].values)
          => op /= "new_session"]_vars


\* C18: run drives the backend in a fixed order: every external id is
\* allocated and the seeds are gathered first, then every seed is uploaded
\* with submit_results, and the task list is submitted with submit_tasks only
\* after that; no task is submitted, resolved or executed before the upload of
\* every seed has completed.
SeedUploaded(i) ==
    /\ InTable(results, nodes[i].result_id)
    /\ results[nodes[i].result_id] = Result_serialize(nodes[i].values)
TasksReached ==
    \/ pc \in {"submit_resolve", "submit_kernel", "submit_write"}
    \/ calls.submit_tasks > 0
    \/ tasks /= <<>>
    \/ written /= <<>>
NewNodes == (Len(nodes) + 1)..Len(nodes')
C21_OneWorkingGraph ==
    [][/\ current_graph' \in {NoGraph} \cup 1..Len(graphs')
       /\ Len(scopes') > Len(scopes) => current_graph' = scopes'[Len(scopes')]
       /\ Len(scopes') < Len(scopes) => current_graph' = NoGraph
       /\ \A k \in 1..Len(graphs) :
             graphs'[k] /= graphs[k] => k = current_graph /\ k = current_graph'
       /\ current_graph = NoGraph =>
             \A k \in 1..Len(graphs') : graphs'[k].members \cap NewNodes = {}
       /\ (current_graph /= NoGraph /\ op' \in {"__setitem__", "tile_potrf"}) =>
             /\ NewNodes /= {}
             /\ NewNodes \subseteq graphs'[current_graph].members
             /\ \A k \in 1..Len(graphs) :
                   k /= current_graph => graphs'[k].members \cap NewNodes = {}]_vars

\* Two graphs were filled one after the other, each in its own with block,
\* the second one left by an exception.
C21_Witness ==
    /\ Len(graphs) = 2
    /\ graphs[1].members /= {} /\ graphs[2].members /= {}
    /\ graphs[1].members \cap graphs[2].members = {}
    /\ op = "__exit__" /\ err = "RuntimeError"
    /\ current_graph = NoGraph /\ scopes = <<>>


\* The roles of the opcode table: the inputs and the output of each opcode.
TableInputs(opcode) ==
    CASE opcode = DRGM -> {}
      [] opcode = POTRF -> {"a"}
      [] opcode = TRSM -> {"a", "b"}
      [] opcode = SYRK -> {"a", "c"}
      [] opcode = GEMM -> {"a", "b", "c"}
      [] OTHER -> {}
TableOutput(opcode) ==
    CASE opcode = DRGM -> "a"
      [] opcode = POTRF -> "l"
      [] opcode = TRSM -> "x"
      [] opcode = SYRK -> "c"
      [] opcode = GEMM -> "c"
      [] OTHER -> ""
BuilderNames ==
    {"tile_potrf", "tile_trsm", "tile_syrk", "tile_gemm",
     "remote_dtarray_generator"}
NewEdges == {j \in 1..Len(edges') : j > Len(edges)}

\* C22: each operator builder call allocates exactly one new output data
\* node and exactly one new control node, wires one input edge per supplied
\* input and one output edge with the role names of the opcode table, adds
\* nothing else and changes no existing edge.
C22_BuilderAddsOneTask ==
    [][(op' \in BuilderNames /\ nodes' /= nodes) =>
          /\ SubSeq(nodes', 1, Len(nodes)) = nodes
          /\ SubSeq(edges', 1, Len(edges)) = edges
          /\ Cardinality({i \in NewNodes : IsControlNode(nodes'[i])}) = 1
          /\ Cardinality({i \in NewNodes : IsDataNode(nodes'[i])}) = 1
          /\ \E c \in NewNodes, x \in NewNodes :
                /\ IsControlNode(nodes'[c]) /\ IsDataNode(nodes'[x])
                /\ Cardinality({j \in NewEdges : edges'[j].u = c}) = 1
                /\ \A j \in NewEdges :
                      edges'[j].u = c =>
                          /\ edges'[j].v = x
                          /\ edges'[j].output_name = TableOutput(nodes'[c].opcode)
                /\ Cardinality({j \in NewEdges : edges'[j].v = c})
                      = Len(arg'.inputs)
                /\ \A j \in NewEdges :
                      edges'[j].v = c =>
                          /\ edges'[j].u \in Elems(arg'.inputs)
                          /\ edges'[j].input_name \in TableInputs(nodes'[c].opcode)
                /\ \A j \in NewEdges : edges'[j].u = c \/ edges'[j].v = c]_vars

\* What the builders do: a call with distinct tiles for its inputs adds one
\* control node, one output tile, one input edge per input and one output
\* edge; the generator adds n_dim * n_dim control nodes and as many tiles.
C22_BuilderAddsTasks ==
    [][(op' \in BuilderNames /\ nodes' /= nodes) =>
          /\ SubSeq(nodes', 1, Len(nodes)) = nodes
          /\ SubSeq(edges', 1, Len(edges)) = edges
          /\ Cardinality({i \in NewNodes : IsControlNode(nodes'[i])})
                = Cardinality({i \in NewNodes : IsDataNode(nodes'[i])})
          /\ Cardinality({j \in NewEdges : IsControlNode(nodes'[edges'[j].u])})
                = Cardinality({i \in NewNodes : IsControlNode(nodes'[i])})
          /\ op' /= "remote_dtarray_generator" =>
                /\ Cardinality({i \in NewNodes : IsControlNode(nodes'[i])}) = 1
                /\ Cardinality({j \in NewEdges : IsDataNode(nodes'[edges'[j].u])})
                      = Cardinality(Elems(arg'.inputs))]_vars


\* C23: the worker-side dispatcher accepts a task only if the output ids the
\* decoded payload declares are, as a set, the expected output ids, and fails
\* otherwise, by this check, made before any input is resolved or any kernel
\* invoked.
DeclaredIds == Elems(DictValues(Payload_deserialize(arg.payload).expected_output_names))
ExpectedIds == Elems(arg.expected_results)
C23_OutputIdsChecked ==
    op = "processor" =>
        IF DeclaredIds = ExpectedIds
        THEN err /= "ValueError"
        ELSE err = "ValueError" /\ sent = <<>> /\ output = NoOutput

\* What the dispatcher does: it resolves the inputs first; then it accepts
\* the task when the declared ids, in the order of the payload, are the
\* expected ids in their order, and raises ValueError otherwise.
C23_OutputIdsInOrder ==
    op = "processor" =>
        LET p == Payload_deserialize(arg.payload)
            ins == IF Len(p.dependency_names) > 0 /\ Len(arg.data_dependencies) > 0
                   THEN InstanceInputs(p.dependency_names,
                                       arg.data_dependencies, 1, <<>>)
                   ELSE [inputs |-> <<>>, err |-> ""]
        IN IF ins.err /= "" THEN err = ins.err
           ELSE IF DictValues(p.expected_output_names) = arg.expected_results
           THEN err /= "ValueError"
           ELSE err = "ValueError" /\ sent = <<>> /\ output = NoOutput


\* C24: a failure reported by a kernel is fatal and propagates.  In the
\* reference executor submit_tasks raises at that task: the step that fails
\* writes no result and the loop over the list is not resumed, so no later
\* task is executed.  In the worker the failure is returned as an error
\* Output and no result is sent; an empty Output is returned only when the
\* kernel succeeded, with the result sent.
KernelFails(handler) ==
    \E inst \in {Instance_init([payload |-> handler.payload,
                                expected_output_ids |-> handler.expected_results],
                               handler.data_dependencies)} :
        /\ inst.err = ""
        /\ \E o \in process(inst) : o.err = "RuntimeError"
SubmitFailed == op = "submit_tasks" /\ pc = "idle" /\ err /= ""
C24_KernelFailureFatal ==
    /\ [](SubmitFailed /\ stage = "process"
            => /\ ti \in 1..Len(tasks)
               /\ written = DeclaredOutputs(ti - 1)
               /\ outs = <<>>)
    /\ [](op = "processor"
            => /\ KernelFails(arg) => output = OutputError /\ sent = <<>>
               /\ output = OutputOk => ~KernelFails(arg) /\ Len(sent) > 0)
    /\ [][/\ (pc = "submit_kernel" /\ pc' = "idle")
              => /\ err' /= ""
                 /\ results' = results /\ written' = written
                 /\ ti' = ti /\ tasks' = tasks
          /\ SubmitFailed => \/ pc' = "idle" /\ ti' = ti /\ written' = written
                             \/ op' /= "submit_tasks"]_vars

\* The first task of a list of two failed in its kernel with RuntimeError.
C24_Witness ==
    /\ SubmitFailed /\ stage = "process" /\ err = "RuntimeError"
    /\ ti = 1 /\ Len(tasks) = 2 /\ written = <<>>


\* C25: Payload.deserialize(p.serialize()) equals p for every opcode, with
\* the optional dependency and parameter maps absent, empty or present,
\* the index pair of a GENERATE task included.
C25_RoundTrip ==
    op = "Payload.deserialize" => arg.decoded = arg.p

\* What the code does: the round trip gives p back except for a parameter
\* map holding the index pair, which comes back as a list where p has a
\* tuple; every other field is the same.
C25_RoundTripButTuples ==
    op = "Payload.deserialize" =>
        /\ arg.decoded.opcode = arg.p.opcode
        /\ arg.decoded.expected_output_names = arg.p.expected_output_names
        /\ arg.decoded.dependency_names = arg.p.dependency_names
        /\ IF "idx" \in DOMAIN arg.p.params
           THEN /\ arg.decoded /= arg.p
                /\ arg.decoded.params.idx = PyList(arg.p.params.idx.items)
                /\ arg.p.params.idx = PyTuple(arg.p.params.idx.items)
           ELSE arg.decoded = arg.p


\* C26: the reference executor is deterministic: the same task list with
\* the same seeds, run from a fresh session twice, gives the same payload
\* under every output id, whatever opcodes the list uses, GENERATE included.
C26_Deterministic ==
    op = "submit_tasks" => arg.first.results = arg.second.results

\* A task of the list that draws random numbers: the "diag" generator on a
\* diagonal tile.
DrawsRandom(task) ==
    \E p \in {Payload_deserialize(task.payload)} :
        /\ p.opcode = DRGM
        /\ p.params.gen = "diag"
        /\ p.params.idx.items[1] = p.params.idx.items[2]

\* What the code does: two runs of a list with no such task end alike, in
\* their tables and in the exception raised.
C26_DeterministicWithoutDraws ==
    op = "submit_tasks" =>
        ((\A i \in 1..Len(arg.tasks) : ~DrawsRandom(arg.tasks[i]))
            => arg.first = arg.second)


Roles(task) == Elems(DictKeys(Payload_deserialize(task.payload).dependency_names))
IsGemmTask(task) == Payload_deserialize(task.payload).opcode = GEMM
AtTask == op = "run" /\ ti \in 1..Len(tasks)
C28_MultiplyWithoutC ==
    /\ \A i \in 1..Len(tasks) :
          IsGemmTask(tasks[i]) => Roles(tasks[i]) \subseteq {"a", "b", "c"}
    /\ (AtTask /\ IsGemmTask(tasks[ti]) /\ Roles(tasks[ti]) = {"a", "b"})
          => ~(pc = "idle" /\ stage = "process" /\ err /= "")

\* What the code does: the task carries the roles a and b only, and the
\* kernel call of the dispatcher, which reads the input c whatever the task
\* carries, raises KeyError: such a task never gets to write an output.
C28_MultiplyNeedsC ==
    /\ \A i \in 1..Len(tasks) :
          IsGemmTask(tasks[i]) => Roles(tasks[i]) \subseteq {"a", "b", "c"}
    /\ (AtTask /\ IsGemmTask(tasks[ti]) /\ "c" \notin Roles(tasks[ti]))
          => /\ pc /= "submit_write"
             /\ (pc = "idle" /\ stage = "process") => err = "KeyError"


\* C29: a rejected submission is never swallowed: when the fabric reports a
\* submission error for a submit_tasks call, or submit_tasks is called with
\* no session so that nothing can be submitted, the call fails with
\* BackendError.
C29_RejectionSurfaced ==
    op = "submit_tasks" =>
        ((Len(arg.answer.errors) > 0 \/ arg.session = NoId)
            => err = "BackendError")

\* What the code does: with a session the call sends one request, keeps the
\* tasks the client submitted and raises BackendError exactly when the
\* client reported an error; with no session it sends nothing, keeps
\* nothing and returns normally.
C29_SubmitOutcome ==
    [][op' = "submit_tasks" /\ submits' = submits + 1
         => IF session_id = NoId
            THEN /\ err' = "" /\ fabric' = fabric /\ submitted' = submitted
            ELSE /\ fabric' = Append(fabric, "submit")
                 /\ submitted' = submitted \o arg'.answer.tasks
                 /\ (err' = "BackendError") = (Len(arg'.answer.errors) > 0)
                 /\ err' \in {"", "BackendError"}]_vars


\* l.to_numpy(triangular=True) after sc.get(l): the fetched tiles of l on
\* and below the diagonal, zeros above.
FetchedTile(i) ==
    get_data_node(nodes[i].values, "available",
                  Dummy_get_result(results, nodes[i].result_id)).values
FactorTile(i, j) ==
    IF j > i THEN Exactly([r \in 1..BlockSize |-> [c \in 1..BlockSize |-> 0]])
    ELSE ArrayOf(FetchedTile(ExampleGraph.dta[<< i, j >>]), arg.matrix)
FactorExact ==
    \A i \in 0..(NumBlocks - 1), j \in 0..(NumBlocks - 1) : FactorTile(i, j).exact
LowerFactor ==
    [r \in 1..MatrixSize |->
        [c \in 1..MatrixSize |->
            FactorTile((r - 1) \div BlockSize, (c - 1) \div BlockSize)
                .m[((r - 1) % BlockSize) + 1][((c - 1) % BlockSize) + 1]]]
RunEnded == op = "run" /\ pc = "idle" /\ nodes /= <<>>

\* C30: for a 6 x 6 symmetric positive-definite matrix in tiles of size 2,
\* running the Cholesky graph on the reference executor succeeds and gives
\* a lower factor L with L L^T = A (on matrices where the kernels compute
\* without rounding: the difference is 0, below 1e-9).
C30_CholeskyCorrect ==
    RunEnded =>
        /\ err = ""
        /\ ti = Len(tasks) + 1
        /\ FactorExact
        /\ \E L \in {LowerFactor} :
              /\ MatMulT(L, L, MatrixSize) = arg.matrix
              /\ \A r \in 1..MatrixSize, c \in 1..MatrixSize : c > r => L[r][c] = 0

\* The run ended on a matrix with entries off the diagonal blocks and a
\* factor that is not the identity.
C30_Witness ==
    /\ RunEnded /\ err = ""
    /\ arg.matrix[MatrixSize][1] /= 0
    /\ arg.matrix[4][3] /= 0
    /\ LowerFactor[MatrixSize][MatrixSize] = MaxDiag


\* The right-hand-side tile of row r at step j of forward_substitution,
\* r >= j: the caller's tile at step 0, afterwards what the update of the
\* previous step wrote.
RECURSIVE ForwardRhs(_, _, _, _)
ForwardRhs(G, b, j, r) ==
    IF j = 0 THEN b[<< r, 0 >>]
    ELSE OutputOf(G, Pick(Consumers(G, ForwardRhs(G, b, j - 1, r), GEMM, "c")),
                  "c")

ForwardSolve(G, b, j) == Pick(Consumers(G, ForwardRhs(G, b, j, j), TRSM, "b"))

ForwardUpdate(G, b, j, r) ==
    Pick(Consumers(G, ForwardRhs(G, b, j, r), GEMM, "c"))

ForwardShaped(G, a, b, p) ==
    /\ CountOp(G, TRSM) = p
    /\ CountOp(G, GEMM) = (p * (p - 1)) \div 2
    /\ CountOp(G, POTRF) = 0 /\ CountOp(G, SYRK) = 0
    /\ CountOp(G, DRGM) = 0 /\ CountOp(G, ONES) = 0
    /\ \A j \in 0..(p - 1) :
          /\ Cardinality(Consumers(G, ForwardRhs(G, b, j, j), TRSM, "b")) = 1
          /\ InputOf(G, ForwardSolve(G, b, j), "a") = a[<< j, j >>]
          /\ InDegree(G, ForwardSolve(G, b, j)) = 2
          /\ OutputOf(G, ForwardSolve(G, b, j), "x") /= 0
          /\ j > 0 => ForwardUpdate(G, b, j - 1, p - 1) < ForwardSolve(G, b, j)
    /\ \A j \in 0..(p - 1) : \A r \in (j + 1)..(p - 1) :
          /\ Cardinality(Consumers(G, ForwardRhs(G, b, j, r), GEMM, "c")) = 1
          /\ InputOf(G, ForwardUpdate(G, b, j, r), "a") = a[<< r, j >>]
          /\ InputOf(G, ForwardUpdate(G, b, j, r), "b")
                = OutputOf(G, ForwardSolve(G, b, j), "x")
          /\ InDegree(G, ForwardUpdate(G, b, j, r)) = 3
          /\ ForwardRhs(G, b, j + 1, r) /= 0
          /\ ForwardSolve(G, b, j) < ForwardUpdate(G, b, j, r)
          /\ r > j + 1 => ForwardUpdate(G, b, j, r - 1) < ForwardUpdate(G, b, j, r)

\* C31: forward_substitution on a p x p array a and a p x 1 array b makes,
\* row after row, one TRSM of a[j, j] and row j's current right-hand side,
\* then one GEMM per row r > j of a[r, j], x[j] and row r's current
\* right-hand side, writing row r's next right-hand side: p TRSM and
\* p(p-1)/2 GEMM, the right-hand side of row j's TRSM being the end of the
\* chain of the j updates of that row.
C31_ForwardGraph ==
    (op = "forward_substitution" /\ arg.a /= arg.b) =>
        ForwardShaped(G0, arrays[arg.a].tiles, arrays[arg.b].tiles,
                      arrays[arg.a].shape[1])

\* forward_substitution has run on 3 x 3 tiles: three updates, two of them
\* feeding the last row.
C31_Witness ==
    /\ op = "forward_substitution" /\ arg.a /= arg.b
    /\ arrays[arg.a].shape = << 3, 3 >>
    /\ CountOp(G0, GEMM) = 3
    /\ ForwardRhs(G0, arrays[arg.b].tiles, 2, 2) /= 0

\* The right-hand-side tile of row i when backward_substitution reaches row
\* j, i <= j < p: the caller's tile at row p - 1, afterwards what the update
\* made at the row above wrote.
RECURSIVE BackwardRhs(_, _, _, _, _)
BackwardRhs(G, b, p, j, i) ==
    IF j = p - 1 THEN b[<< i, 0 >>]
    ELSE OutputOf(G, Pick(Consumers(G, BackwardRhs(G, b, p, j + 1, i),
                                    GEMM, "c")), "c")

BackwardSolve(G, b, p, j) ==
    Pick(Consumers(G, BackwardRhs(G, b, p, j, j), TRSM, "b"))

BackwardUpdate(G, b, p, j, i) ==
    Pick(Consumers(G, BackwardRhs(G, b, p, j, i), GEMM, "c"))

BackwardShaped(G, a, b, p, trans) ==
    /\ CountOp(G, TRSM) = p
    /\ CountOp(G, GEMM) = (p * (p - 1)) \div 2
    /\ \A j \in 0..(p - 1) :
          /\ Cardinality(Consumers(G, BackwardRhs(G, b, p, j, j), TRSM, "b")) = 1
          /\ InputOf(G, BackwardSolve(G, b, p, j), "a") = a[<< j, j >>]
          /\ j < p - 1 => BackwardSolve(G, b, p, j + 1) < BackwardSolve(G, b, p, j)
    /\ \A j \in 0..(p - 1) : \A i \in 0..(j - 1) :
          /\ Cardinality(Consumers(G, BackwardRhs(G, b, p, j, i), GEMM, "c")) = 1
          /\ InputOf(G, BackwardUpdate(G, b, p, j, i), "a")
                = IF trans = 1 THEN a[<< j, i >>] ELSE a[<< i, j >>]
          /\ InputOf(G, BackwardUpdate(G, b, p, j, i), "b")
                = OutputOf(G, BackwardSolve(G, b, p, j), "x")
          /\ BackwardSolve(G, b, p, j) < BackwardUpdate(G, b, p, j, i)

\* The control nodes the substitutions add to the graph of solve: the
\* triangular solves applied from the left and the multiplies that do not
\* transpose their second operand (cholesky builds the others).
SubstitutionControls(G) ==
    {c \in 1..Len(G.nodes) :
        /\ IsControlNode(G.nodes[c])
        /\ \/ G.nodes[c].opcode = TRSM /\ G.nodes[c].params.side = 0
           \/ G.nodes[c].opcode = GEMM /\ G.nodes[c].params.trans_b = 0}

\* The set cells of the factor cholesky returns: l[i, k], i >= k.
LowerCells(G, a, p) ==
    {Factor(G, a, i, k) : i \in 0..(p - 1), k \in 0..(p - 1)} \ {0}

FactorInputs(G) ==
    {InputOf(G, c, "a") : c \in SubstitutionControls(G)}

\* C32: backward_substitution solves the rows from p - 1 down to 0 and the
\* update of row i < j reads a[i, j] when trans is false and a[j, i] when it
\* is true; in the graph of solve(assume_a='spd') every coefficient tile the
\* substitutions read is a cell l[i, k], i >= k, of the factor, and no edge
\* has None (0) as an end.
C32_BackwardIndexing ==
    /\ (op = "backward_substitution" /\ arg.a /= arg.b) =>
          BackwardShaped(G0, arrays[arg.a].tiles, arrays[arg.b].tiles,
                         arrays[arg.a].shape[1], arg.trans)
    /\ (op = "solve" /\ arg.assume_a = "spd" /\ err = "") =>
          /\ \A e \in 1..Len(edges) : edges[e].u /= 0 /\ edges[e].v /= 0
          /\ FactorInputs(G0) \subseteq
                LowerCells(G0, arrays[arg.a].tiles, arrays[arg.a].shape[1])
          /\ Cardinality(SubstitutionControls(G0))
                = arrays[arg.a].shape[1] * (arrays[arg.a].shape[1] + 1)

\* solve has run on 3 x 3 tiles: the backward substitution has read the
\* three sub-diagonal cells of the factor.
C32_Witness ==
    /\ op = "solve" /\ arg.assume_a = "spd" /\ err = ""
    /\ arrays[arg.a].shape = << 3, 3 >>
    /\ Cardinality(FactorInputs(G0)) = 6
    /\ Cardinality(SubstitutionControls(G0)) = 12

\* The data nodes a task of the run has written.
WrittenNodes == {i \in DataIds : nodes[i].result_id \in Elems(written)}

\* C33: whatever builders were called and tiles assigned, a data node has at
\* most one incoming edge; in a run no id is written by two tasks, no id a
\* task writes was uploaded as a seed, and the ids written are those of
\* nodes with exactly one producer.
C33_SingleWriter ==
    /\ \A i \in DataIds : InDegree(G0, i) <= 1
    /\ \A k \in 1..Len(written) : \A m \in 1..Len(written) :
          written[k] = written[m] => k = m
    /\ \A k \in 1..Len(written) : ~DictHas(seeds, written[k])
    /\ \A k \in 1..Len(written) :
          \E i \in WrittenNodes :
             nodes[i].result_id = written[k] /\ InDegree(G0, i) = 1

\* A run has ended after two tasks wrote their tiles, the first of them
\* read by the second, and one seed was uploaded.
C33_Witness ==
    /\ op = "run" /\ pc = "idle" /\ err = ""
    /\ Len(written) = 2
    /\ Len(seeds) = 1
    /\ \E i \in WrittenNodes : out_degree(edges, i) > 0

\* The input roles of an opcode: a; a, b; a, c; a, b, c.
RoleCount(opcode) ==
    IF opcode = POTRF THEN 1
    ELSE IF opcode = GEMM THEN 3
    ELSE IF opcode \in {TRSM, SYRK} THEN 2
    ELSE 0

\* Control node c reads one data node per role and its task lists one
\* dependency per role.
OneInputPerRole(G, c) ==
    /\ InDegree(G, c) = RoleCount(G.nodes[c].opcode)
    /\ CompileNode(G, c).err = ""
    /\ Len(CompileNode(G, c).task[1].data_dependencies)
          = RoleCount(G.nodes[c].opcode)

GeneratorRan ==
    /\ op \in {"forward_substitution", "backward_substitution", "solve"}
    /\ err = ""

\* The same array was passed as coefficient matrix and as right-hand side.
SameArrayTwice ==
    /\ op \in {"forward_substitution", "backward_substitution"}
    /\ arg.a = arg.b

\* C34: in the graph a generator leaves, every control node reads pairwise
\* different data nodes, one per role, and its task has one dependency per
\* role: 1 for POTRF, 2 for TRSM, 2 for SYRK, 3 for GEMM.
C34_InputsDistinct ==
    GeneratorRan => \A c \in ControlIds : OneInputPerRole(G0, c)

\* C34, as the code has it: the inputs are pairwise different when the
\* arrays passed are two arrays (solve included, whose factor is a new
\* array); a substitution given one 1 x 1 array as a and as b makes a TRSM
\* with a single incoming edge, named b, and a task with one dependency.
C34_InputsDistinctUnlessSameArray ==
    GeneratorRan =>
        IF SameArrayTwice
        THEN \A c \in ControlIds :
                /\ nodes[c].opcode = TRSM
                /\ InDegree(G0, c) = 1
                /\ Consumers(G0, arrays[arg.a].tiles[<< 0, 0 >>], TRSM, "b") = {c}
                /\ Len(CompileNode(G0, c).task[1].data_dependencies) = 1
        ELSE \A c \in ControlIds : OneInputPerRole(G0, c)

\* forward_substitution(a, a) has run on a 1 x 1 array.
C34_Witness ==
    /\ GeneratorRan /\ SameArrayTwice
    /\ op = "forward_substitution"
    /\ ControlIds /= {}

\* The graph is the one cholesky left on a fully populated array: it holds
\* control nodes and none of the substitutions.
IsCholeskyGraph == ControlIds /= {} /\ SubstitutionControls(G0) = {}

\* The number of tile rows of the array, and the array as from_numpy filled
\* it: tile (i, j) is node i * p + j + 1.
TileRows == CountOp(G0, POTRF)

InputTile(i, j) == i * TileRows + j + 1

InputArray ==
    [idx \in (0..(TileRows - 1)) \X (0..(TileRows - 1)) |->
        InputTile(idx[1], idx[2])]

LowerTiles ==
    {InputTile(idx[1], idx[2]) :
        idx \in {idx \in (0..(TileRows - 1)) \X (0..(TileRows - 1)) :
                    idx[1] >= idx[2]}}

UpperTiles == (1..(TileRows * TileRows)) \ LowerTiles

\* The data nodes the updates of the trailing matrix wrote.
TrailingTiles ==
    {OutputOf(G0, c, "c") :
        c \in {c \in ControlIds : nodes[c].opcode \in {SYRK, GEMM}}}

\* The cells of the array cholesky returns that hold a tile.
FactorCells ==
    LET l == cholesky(Graph([k \in 1..(TileRows * TileRows) |-> nodes[k]], <<>>),
                      InputArray, TileRows)
    IN IF l.G.edges /= edges THEN {}
       ELSE {idx \in DOMAIN l.dta :
                /\ l.dta[idx] /= 0
                /\ l.dta[idx] = Factor(G0, InputArray, idx[1], idx[2])}

\* C35: of a fully populated p x p array the graph of cholesky reads the
\* tiles (i, j), i >= j, only: they are the seeds, p(p+1)/2 of them; the
\* tiles above the diagonal have no edge, are in no seed dict and their
\* table entries stay empty; every tile an update wrote is read by a later
\* control node; the factor returned holds a tile in the cells (i, k),
\* i >= k, and in no other.
C35_LowerOnly ==
    IsCholeskyGraph =>
        /\ {i \in DataIds : IsSeed(G0, i)} = LowerTiles
        /\ Cardinality(LowerTiles) = (TileRows * (TileRows + 1)) \div 2
        /\ \A i \in UpperTiles :
              /\ in_degree(edges, i) = 0 /\ out_degree(edges, i) = 0
              /\ op = "run" =>
                    /\ ~DictHas(seeds, nodes[i].result_id)
                    /\ ~Realized(nodes[i].result_id)
        /\ op = "run" =>
              {seeds[k].k : k \in 1..Len(seeds)}
                 = {nodes[i].result_id : i \in LowerTiles}
        /\ \A t \in TrailingTiles : t /= 0 /\ out_degree(edges, t) > 0
        /\ FactorCells = {idx \in (0..(TileRows - 1)) \X (0..(TileRows - 1)) :
                             idx[1] >= idx[2]}

\* The run of the Cholesky graph of 3 x 3 tiles has ended: six seeds are in
\* the table, the three tiles above the diagonal are not.
C35_Witness ==
    /\ IsCholeskyGraph /\ TileRows = 3
    /\ op = "run" /\ pc = "idle" /\ err = ""
    /\ Len(seeds) = 6
    /\ \A i \in LowerTiles : Realized(nodes[i].result_id)
    /\ Cardinality(UpperTiles) = 3

\* The ids request_output_id has handed out so far.
HandedOut == 1..(nextId - 1)

\* C36: every id handed out is in the table; it enters as None and becomes
\* a payload only in submit_results or when submit_tasks writes the results
\* of a task; an entry that holds a payload holds one ever after and no
\* entry leaves the table, whatever is requested, uploaded, submitted or
\* fetched.
C36_TableMonotonic ==
    [][/\ \A id \in HandedOut : InTable(results, id)
       /\ \A id \in (DOMAIN results') \ (DOMAIN results) : IsNone(results'[id])
       /\ \A id \in DOMAIN results :
             /\ InTable(results', id)
             /\ ~IsNone(results[id]) => ~IsNone(results'[id])
             /\ (IsNone(results[id]) /\ ~IsNone(results'[id]))
                   => pc \in {"run_submit_results", "submit_write"}]_vars

\* After a second run and a fetch the table holds the payloads of the first
\* run next to those of the second.
C36_Witness ==
    /\ runs = 2 /\ gets > 0 /\ pc = "idle" /\ err = ""
    /\ Cardinality({id \in DOMAIN results : ~IsNone(results[id])}) >= 4
    /\ \E id \in DOMAIN results :
          /\ ~IsNone(results[id])
          /\ \A i \in DataIds : nodes[i].result_id /= id

\* The ids the tasks before the k-th declare as outputs.
PrefixOutputs(list, k) ==
    UNION {Elems(list[m].expected_output_ids) : m \in 1..(k - 1)}

\* The call on table R0 ended in T with exception e at the k-th task: the
\* tasks before it ran to their end and left T, the k-th raises e on T, the
\* outputs of the tasks before it hold payloads and every other entry is
\* what it was before the call.
FailedAt(R0, list, T, e, k) ==
    /\ \E r \in submit_tasks(R0, SubSeq(list, 1, k - 1), 1) :
          r.err = "" /\ r.results = T
    /\ \E f \in submit_tasks(T, << list[k] >>, 1) : f.err = e /\ f.results = T
    /\ DOMAIN T = DOMAIN R0
    /\ \A id \in PrefixOutputs(list, k) : id \in DOMAIN T /\ ~IsNone(T[id])
    /\ \A id \in (DOMAIN R0) \ PrefixOutputs(list, k) : T[id] = R0[id]

\* C37: a submit_tasks call that raises at its k-th task leaves in the table
\* what the tasks before it wrote; the entries of the outputs of the k-th
\* and the later tasks, like all others, are as they were when the k-th
\* task started: nothing is undone and nothing of the failed task is
\* written.
C37_NoRollback ==
    (op = "submit_tasks" /\ arg.first.err /= "") =>
        \E k \in 1..Len(arg.tasks) :
            FailedAt(FreshSession(arg.seed), arg.tasks, arg.first.results,
                     arg.first.err, k)

\* The second task of a list failed after the first wrote its output.
C37_Witness ==
    /\ op = "submit_tasks" /\ arg.first.err /= "" /\ Len(arg.tasks) = 2
    /\ FailedAt(FreshSession(arg.seed), arg.tasks, arg.first.results,
                arg.first.err, 2)
    /\ ~FailedAt(FreshSession(arg.seed), arg.tasks, arg.first.results,
                 arg.first.err, 1)
    /\ arg.first.results /= FreshSession(arg.seed)

\* How often a request was sent to the fabric among the first n.
CountRequests(log, n, request) ==
    Cardinality({k \in 1..n : log[k] = request})

\* C38: entering new_session sends one create_session before any statement
\* of the block; leaving the block normally sends one cancel_session, after
\* it; leaving it by an exception sends nothing and the exception goes on;
\* so every cancel_session follows its create_session and an open block has
\* one create_session not yet cancelled.
C38_SessionBracket ==
    /\ [](/\ \A n \in 0..Len(fabric) :
                /\ CountRequests(fabric, n, "cancel_session")
                      <= CountRequests(fabric, n, "create_session")
          /\ CountRequests(fabric, Len(fabric), "create_session") = sessions
          /\ inSession =>
                /\ fabric /= <<>>
                /\ \E n \in 1..Len(fabric) :
                      /\ fabric[n] = "create_session"
                      /\ \A m \in n..Len(fabric) : fabric[m] /= "cancel_session"
          /\ op = "get_data_node" => inSession)
    /\ [][/\ (~inSession /\ inSession')
                => fabric' = Append(fabric, "create_session")
          /\ (inSession /\ ~inSession')
                => /\ err' = err
                   /\ IF err = ""
                      THEN fabric' = Append(fabric, "cancel_session")
                      ELSE fabric' = fabric
          /\ (inSession /\ inSession')
                => CountRequests(fabric', Len(fabric'), "cancel_session")
                      = CountRequests(fabric, Len(fabric), "cancel_session")]_vars

\* A first block was left by an exception without cancel_session, a second
\* one was left normally with it.
C38_Witness ==
    /\ ~inSession /\ sessions = 2 /\ err = ""
    /\ op = "new_session.__exit__"
    /\ CountRequests(fabric, Len(fabric), "create_session") = 2
    /\ CountRequests(fabric, Len(fabric), "cancel_session") = 1
    /\ fabric /= <<>> /\ fabric[Len(fabric)] = "cancel_session"

\* The payload of task t agrees with the two id lists of the task.
SelfConsistent(task) ==
    \E pl \in {Payload_deserialize(task.payload)} :
        /\ DictValues(pl.expected_output_names) = task.expected_output_ids
        /\ DictValues(pl.dependency_names) = task.data_dependencies
        /\ OutputIdsAccepted(pl.expected_output_names, task.expected_output_ids)

\* C39: every task _compile returns carries in expected_output_ids the
\* values of its payload's output-name map, in order, and in
\* data_dependencies those of its dependency-name map; the dict the
\* reference backend hands to the instance has exactly these ids as keys, so
\* __init__ finds every input and accepts the output ids: no run fails in
\* __init__.
C39_TasksConsistent ==
    Compiled =>
        /\ \A t \in 1..Len(tasks) : SelfConsistent(tasks[t])
        /\ pc \in {"submit_kernel", "submit_write"} =>
              /\ Elems(DictKeys(deps)) = Elems(tasks[ti].data_dependencies)
              /\ Instance_init(tasks[ti], deps).err = ""
              /\ Len(Instance_init(tasks[ti], deps).inputs)
                    = Len(Payload_deserialize(tasks[ti].payload).dependency_names)
        /\ stage /= "__init__"

\* The instance of a task with three dependencies was made and its kernel
\* has run.
C39_Witness ==
    /\ Compiled /\ pc = "submit_write"
    /\ Len(tasks[ti].data_dependencies) = 3
    /\ Len(tasks[ti].expected_output_ids) = 1
====
